---- MODULE Spec2Model ----
(***************************************************************************)
(* weewx-home-assistant: the measurement registry (ConfigPublisher), the   *)
(* state publisher (StatePublisher), the key resolver (get_key_config),    *)
(* the unit resolver (get_unit_metadata) and the worker pool of the        *)
(* Controller that runs them.                                              *)
(*                                                                         *)
(* Representation.  A Python str that the code takes apart (a measurement  *)
(* key, a display name) is a tuple of one-character strings.  A Python     *)
(* dict whose order the code relies on (KEY_CONFIG, seen_measurements, a   *)
(* packet) is a sequence of <<key, value>> pairs in insertion order; a     *)
(* small dict (one entry, its metadata) is a function whose DOMAIN is the  *)
(* set of keys present.  Scalar values are tagged tuples so that values of *)
(* different Python types can be compared.                                 *)
(***************************************************************************)
EXTENDS Integers, Sequences, FiniteSets, TLC

(***************************************************************************)
(* Bounds of the model (not program constants).                            *)
(***************************************************************************)
\* packets the host delivers in one run, arriving while earlier ones are processed
MaxPackets == 2
\* packets the host delivers in one run, each arriving when the pool is idle
MaxPacedPackets == 6
\* tasks submitted and not yet finished when the host submits another one
MaxInFlight == 2
\* Home Assistant birth messages received in one run
MaxBirths == 1
\* longest run of digits appended to a key given to the resolver
MaxDigits == 2
\* archive records the host delivers in the life-cycle specification
MaxRecords == 2
\* largest direction given to degrees_to_cardinal, in quarters of a degree
\* (both signs); 1440 quarters are a full turn
MaxQuarters == 1800
\* largest integer given to UnitSystem.from_int (both signs)
MaxCode == 40

(***************************************************************************)
(* Program constants.                                                      *)
(***************************************************************************)
SETTLE_COUNTDOWN_START == 5
THREAD_POOL_SIZE == 2

(***************************************************************************)
(* Values.                                                                 *)
(***************************************************************************)
None == <<"None">>
Str(s) == <<"str", s>>
Num(n) == <<"int", n>>
Bool(b) == <<"bool", b>>
Text(chars) == <<"text", chars>>
List(seq) == <<"list", seq>>
Dict(f) == <<"dict", f>>
Lambda(name) == <<"lambda", name>>
Raised(exc) == <<"raise", exc>>

IsRaised(v) == v[1] = "raise"

\* a function that returns a dict ended with the exception exc instead
Failed(exc) == [exception |-> exc]
IsFailed(config) == "exception" \in DOMAIN config

\* the empty dict {}
EmptyDict == [x \in {} |-> None]

\* Python's  a | b  on dicts: the keys of both, b's value where both have one
Union(a, b) == b @@ a

\* Python's  d.get(k, default)
GetOr(d, k, default) == IF k \in DOMAIN d THEN d[k] ELSE default

(***************************************************************************)
(* Ordered dicts: sequences of <<key, value>> pairs.                       *)
(***************************************************************************)
Keys(d) == {d[i][1] : i \in DOMAIN d}

Has(d, k) == \E i \in DOMAIN d : d[i][1] = k

Idx(d, k) == CHOOSE i \in DOMAIN d : d[i][1] = k

Get(d, k) == d[Idx(d, k)][2]

\* Put when a key already present is deleted and inserted again, at the end
PutLast(d, k, v) ==
    Append(SelectSeq(d, LAMBDA item : item[1] # k), <<k, v>>)

\* d[k] = v : a key already present keeps its place
Put(d, k, v) ==
    IF Has(d, k) THEN [d EXCEPT ![Idx(d, k)] = <<k, v>>] ELSE Append(d, <<k, v>>)

(***************************************************************************)
(* Characters.                                                             *)
(***************************************************************************)
LOWER == <<"a", "b", "c", "d", "e", "f", "g", "h", "i", "j", "k", "l", "m",
           "n", "o", "p", "q", "r", "s", "t", "u", "v", "w", "x", "y", "z">>
UPPER == <<"A", "B", "C", "D", "E", "F", "G", "H", "I", "J", "K", "L", "M",
           "N", "O", "P", "Q", "R", "S", "T", "U", "V", "W", "X", "Y", "Z">>
Digits == {"0", "1", "2", "3", "4", "5", "6", "7", "8", "9"}

IsDigit(c) == c \in Digits
IsUpper(c) == \E i \in DOMAIN UPPER : UPPER[i] = c
IsLower(c) == \E i \in DOMAIN LOWER : LOWER[i] = c
IsCased(c) == IsUpper(c) \/ IsLower(c)
ToUpper(c) == IF IsLower(c) THEN UPPER[CHOOSE i \in DOMAIN LOWER : LOWER[i] = c] ELSE c
ToLower(c) == IF IsUpper(c) THEN LOWER[CHOOSE i \in DOMAIN UPPER : UPPER[i] = c] ELSE c

\* str.lower()
Lowered(s) == [i \in DOMAIN s |-> ToLower(s[i])]

\* str.startswith(prefix)
StartsWith(s, prefix) ==
    /\ Len(prefix) <= Len(s)
    /\ SubSeq(s, 1, Len(prefix)) = prefix

\* str.endswith(suffix)
EndsWith(s, suffix) ==
    /\ Len(suffix) <= Len(s)
    /\ SubSeq(s, Len(s) - Len(suffix) + 1, Len(s)) = suffix

\* needle in s
Contains(s, needle) ==
    \E i \in 0..(Len(s) - Len(needle)) : SubSeq(s, i + 1, i + Len(needle)) = needle

\* re.sub(r"(\d+)", r" \1", s): a space before every maximal run of digits
RECURSIVE SpaceDigitsUpTo(_, _)
SpaceDigitsUpTo(s, n) ==
    IF n = 0 THEN <<>>
    ELSE SpaceDigitsUpTo(s, n - 1) \o
         (IF IsDigit(s[n]) /\ (n = 1 \/ ~IsDigit(s[n - 1]))
          THEN <<" ", s[n]>> ELSE <<s[n]>>)

SpaceDigits(s) == SpaceDigitsUpTo(s, Len(s))

\* re.sub(r"(?<!^)(?=[A-Z])", " ", s): a space before every capital but a leading one
RECURSIVE SplitCamelUpTo(_, _)
SplitCamelUpTo(s, n) ==
    IF n = 0 THEN <<>>
    ELSE SplitCamelUpTo(s, n - 1) \o
         (IF IsUpper(s[n]) /\ n # 1 THEN <<" ", s[n]>> ELSE <<s[n]>>)

SplitCamel(s) == SplitCamelUpTo(s, Len(s))

\* str.title(): a cased character is capitalised after an uncased one (or at the
\* start) and lowered after a cased one
Title(s) ==
    [i \in DOMAIN s |->
        IF i > 1 /\ IsCased(s[i - 1]) THEN ToLower(s[i]) ELSE ToUpper(s[i])]

\* s.replace(old, new, 1) for an s that starts with old
ReplacePrefix(s, old, new) == new \o SubSeq(s, Len(old) + 1, Len(s))

(***************************************************************************)
(* State.                                                                  *)
(***************************************************************************)
VARIABLES
    \* the overlay the sensor table was loaded with (fixed at start-up)
    sensor_overlay,
    \* what the program has written into entries of utils.KEY_CONFIG since
    table_writes,
    \* ConfigPublisher.seen_measurements, the registry (an ordered dict)
    seen_measurements,
    \* ConfigPublisher.device_description
    device_description,
    \* StatePublisher.settled_countdown
    settled_countdown,
    \* the executor's work queue, oldest task first
    queue,
    \* the tasks the pool's workers are running, each with its locals
    running,
    \* the host and the broker: packets delivered, birth messages received
    env,
    \* history kept for the properties (never read by an action's guard)
    ghost,
    \* the key handed to the resolver, and <<what it returned>> once it has
    rkey, rres

vars == <<sensor_overlay, table_writes, seen_measurements, device_description, settled_countdown,
          queue, running, env, ghost, rkey, rres>>

(***************************************************************************)
(* Measurement keys and display names (str, as tuples of characters).      *)
(***************************************************************************)
extraAlarm == <<"e", "x", "t", "r", "a", "A", "l", "a", "r", "m">>
extraTemp == <<"e", "x", "t", "r", "a", "T", "e", "m", "p">>
outHumidity == <<"o", "u", "t", "H", "u", "m", "i", "d", "i", "t", "y">>
outTemp == <<"o", "u", "t", "T", "e", "m", "p">>
pressure == <<"p", "r", "e", "s", "s", "u", "r", "e">>
usUnits == <<"u", "s", "U", "n", "i", "t", "s">>
windDir == <<"w", "i", "n", "d", "D", "i", "r">>
windDirCardinal == <<"w", "i", "n", "d", "D", "i", "r", "C", "a", "r", "d", "i", "n", "a", "l">>
windDir10 == <<"w", "i", "n", "d", "D", "i", "r", "1", "0">>
windDir10Cardinal == <<"w", "i", "n", "d", "D", "i", "r", "1", "0", "C", "a", "r", "d", "i", "n", "a", "l">>
compass == <<"c", "o", "m", "p", "a", "s", "s">>
ET == <<"E", "T">>
dateTime == <<"d", "a", "t", "e", "T", "i", "m", "e">>
sunrise == <<"s", "u", "n", "r", "i", "s", "e">>
sunset == <<"s", "u", "n", "s", "e", "t">>
stormStart == <<"s", "t", "o", "r", "m", "S", "t", "a", "r", "t">>

(***************************************************************************)
(* ENUM_MAPS and the conversions.                                          *)
(***************************************************************************)
\* ENUM_MAPS["cardinal_directions"]: the label of index i is CardinalDirections[i + 1]
CardinalDirections ==
    <<"N", "NNE", "NE", "ENE", "E", "ESE", "SE", "SSE",
      "S", "SSW", "SW", "WSW", "W", "WNW", "NW", "NNW">>

\* int(x / y) for y > 0: Python's int() truncates towards zero
TruncDiv(x, y) == IF x >= 0 THEN x \div y ELSE -((-x) \div y)

\* degrees_to_cardinal for a direction given in quarters of a degree:
\* int((degrees + 11.25) / 22.5) % 16
degrees_to_cardinal_q(quarters) ==
    CardinalDirections[(TruncDiv(quarters + 45, 90) % 16) + 1]

\* degrees_to_cardinal for a whole number of degrees
degrees_to_cardinal(degrees) == degrees_to_cardinal_q(4 * degrees)

\* int(UnitSystem.X): weewx.US, weewx.METRIC, weewx.METRICWX
UnitSystemInt == [US |-> 1, METRIC |-> 16, METRICWX |-> 17]

\* UnitSystem.__int__
UnitSystem_int(u) == UnitSystemInt[u]

\* the value of each member, which is the string the member is
UnitSystemValue == [US |-> "US", METRIC |-> "METRIC", METRICWX |-> "METRICWX"]

\* UnitSystem.__str__
UnitSystem_str(u) == UnitSystemValue[u]

\* UnitSystem(value): the member of that value, ValueError if there is none
UnitSystem_call(value) ==
    IF \E u \in DOMAIN UnitSystemValue : UnitSystemValue[u] = value
    THEN Str(CHOOSE u \in DOMAIN UnitSystemValue : UnitSystemValue[u] = value)
    ELSE Raised("ValueError")

\* from_int when an unknown code falls back to the default unit system
from_int_default(value) ==
    IF \E u \in DOMAIN UnitSystemInt : UnitSystemInt[u] = value
    THEN Str(CHOOSE u \in DOMAIN UnitSystemInt : UnitSystemInt[u] = value)
    ELSE Str("METRICWX")

\* UnitSystem.from_int
from_int(value) ==
    IF \E u \in DOMAIN UnitSystemInt : UnitSystemInt[u] = value
    THEN Str(CHOOSE u \in DOMAIN UnitSystemInt : UnitSystemInt[u] = value)
    ELSE Raised("ValueError")

\* convert_lambda(x, cp) for the lambdas of KEY_CONFIG, by name
Convert(lambda, x) ==
    CASE lambda = Lambda("degrees_to_cardinal") ->
             IF x[1] # "int" THEN Raised("TypeError") ELSE Str(degrees_to_cardinal(x[2]))
      [] lambda = Lambda("unit_system_name") ->
             IF x[1] # "int" THEN Raised("ValueError") ELSE from_int(x[2])

(***************************************************************************)
(* KEY_CONFIG as the source writes it (the entries the model uses, in the  *)
(* source's order).                                                        *)
(***************************************************************************)
KEY_CONFIG_TABLE == <<
    <<extraAlarm,
      [integration |-> Str("binary_sensor"),
       metadata |-> [enabled_by_default |-> Bool(FALSE),
                     icon |-> Str("mdi:alarm-light"),
                     name |-> Text(<<"E", "x", "t", "r", "a", " ", "A", "l", "a", "r", "m">>),
                     payload_off |-> Num(0),
                     payload_on |-> Num(1)]]>>,
    <<extraTemp,
      [metadata |-> [device_class |-> Str("temperature"),
                     icon |-> Str("mdi:thermometer"),
                     name |-> Text(<<"E", "x", "t", "r", "a", " ", "T", "e", "m", "p", "e", "r", "a", "t", "u", "r", "e">>),
                     state_class |-> Str("measurement")]]>>,
    <<outHumidity,
      [metadata |-> [device_class |-> Str("humidity"),
                     icon |-> Str("mdi:water-percent"),
                     name |-> Text(<<"O", "u", "t", "d", "o", "o", "r", " ", "H", "u", "m", "i", "d", "i", "t", "y">>),
                     state_class |-> Str("measurement")]]>>,
    <<outTemp,
      [metadata |-> [device_class |-> Str("temperature"),
                     icon |-> Str("mdi:thermometer"),
                     name |-> Text(<<"O", "u", "t", "d", "o", "o", "r", " ", "T", "e", "m", "p", "e", "r", "a", "t", "u", "r", "e">>),
                     state_class |-> Str("measurement")]]>>,
    <<pressure,
      [metadata |-> [device_class |-> Str("atmospheric_pressure"),
                     icon |-> Str("mdi:gauge"),
                     name |-> Text(<<"A", "t", "m", "o", "s", "p", "h", "e", "r", "i", "c", " ", "P", "r", "e", "s", "s", "u", "r", "e">>),
                     state_class |-> Str("measurement")]]>>,
    <<usUnits,
      [convert_lambda |-> Lambda("unit_system_name"),
       metadata |-> [attributes |-> Dict([options |-> Str("{{ ['METRIC', 'METRICWX', 'US'] }}")]),
                     device_class |-> Str("enum"),
                     icon |-> Str("mdi:scale-balance"),
                     name |-> Text(<<"U", "n", "i", "t", "s">>)]]>>,
    <<windDir,
      [metadata |-> [icon |-> Str("mdi:compass-rose"),
                     name |-> Text(<<"W", "i", "n", "d", " ", "D", "i", "r", "e", "c", "t", "i", "o", "n">>),
                     state_class |-> Str("measurement_angle")]]>>,
    <<windDirCardinal,
      [source |-> windDir,
       convert_lambda |-> Lambda("degrees_to_cardinal"),
       metadata |-> [device_class |-> Str("enum"),
                     icon |-> Str("mdi:compass-rose"),
                     name |-> Text(<<"W", "i", "n", "d", " ", "D", "i", "r", "e", "c", "t", "i", "o", "n", " ", "C", "a", "r", "d", "i", "n", "a", "l">>),
                     options |-> List(CardinalDirections),
                     unit_of_measurement |-> None]]>>,
    <<windDir10,
      [metadata |-> [icon |-> Str("mdi:compass-rose"),
                     name |-> Text(<<"1", "0", "-", "M", "i", "n", "u", "t", "e", " ", "W", "i", "n", "d", " ", "D", "i", "r", "e", "c", "t", "i", "o", "n">>),
                     state_class |-> Str("measurement_angle")]]>>,
    <<windDir10Cardinal,
      [source |-> windDir10,
       convert_lambda |-> Lambda("degrees_to_cardinal"),
       metadata |-> [device_class |-> Str("enum"),
                     icon |-> Str("mdi:compass-rose"),
                     name |-> Text(<<"1", "0", "-", "M", "i", "n", "u", "t", "e", " ", "W", "i", "n", "d", " ", "D", "i", "r", "e", "c", "t", "i", "o", "n", " ", "C", "a", "r", "d", "i", "n", "a", "l">>),
                     options |-> List(CardinalDirections),
                     unit_of_measurement |-> None]]>>
    >>

\* A sensor-table overlay that adds a sensor derived from a derived sensor.  An
\* overlay entry is plain data, so it names a source and carries no conversion.
SENSOR_OVERLAY == <<
    <<compass,
      [source |-> windDirCardinal,
       metadata |-> [icon |-> Str("mdi:compass"),
                     name |-> Text(<<"C", "o", "m", "p", "a", "s", "s">>)]]>>
    >>

\* The overlays a run can start with: none, and the one above.
SensorOverlays == {<<>>, SENSOR_OVERLAY}

\* utils.KEY_CONFIG, the module-level sensor table (an ordered dict): the table as
\* loaded, with the attributes the program has since written into the metadata of
\* its entries
KEY_CONFIG ==
    LET loaded == KEY_CONFIG_TABLE \o sensor_overlay
    IN  [i \in DOMAIN loaded |->
            IF loaded[i][1] \in DOMAIN table_writes
            THEN <<loaded[i][1],
                   [loaded[i][2] EXCEPT !["metadata"] = Union(@, table_writes[loaded[i][1]])]>>
            ELSE loaded[i]]

(***************************************************************************)
(* get_key_config                                                          *)
(***************************************************************************)
\* the length of the longest run of digits that ends s
RECURSIVE TrailingDigits(_)
TrailingDigits(s) ==
    IF s # <<>> /\ IsDigit(s[Len(s)])
    THEN 1 + TrailingDigits(SubSeq(s, 1, Len(s) - 1))
    ELSE 0

\* the truth value of KEY_CONFIG.get(key): the key has an entry that is not empty
Truthy(key) == Has(KEY_CONFIG, key) /\ Get(KEY_CONFIG, key) # EmptyDict

\* config["metadata"]["name"] = value  (KeyError when config has no metadata)
SetName(config, value) ==
    IF IsRaised(value) THEN Failed(value[2])
    ELSE IF "metadata" \in DOMAIN config
    THEN [config EXCEPT !["metadata"] = Union(@, [name |-> value])]
    ELSE Failed("KeyError")

\* SuffixedName without the separating space
SuffixedNameNoSpace(config, suffix) ==
    IF "metadata" \in DOMAIN config /\ "name" \in DOMAIN config["metadata"]
    THEN Text(config["metadata"]["name"][2] \o suffix)
    ELSE Raised("KeyError")

\* f"{config['metadata']['name']} {suffix}"  (KeyError when there is no name)
SuffixedName(config, suffix) ==
    IF "metadata" \in DOMAIN config /\ "name" \in DOMAIN config["metadata"]
    THEN Text(config["metadata"]["name"][2] \o <<" ">> \o suffix)
    ELSE Raised("KeyError")

\* the name synthesized from a key: digits spaced, camel case split, title case,
\* then the leading In/Out/Tx/Rx spelled out
SynthesizedName(weewx_key) ==
    LET key_split == Title(SplitCamel(SpaceDigits(weewx_key)))
    IN  IF StartsWith(key_split, <<"I", "n", " ">>)
        THEN ReplacePrefix(key_split, <<"I", "n", " ">>, <<"I", "n", "d", "o", "o", "r", " ">>)
        ELSE IF StartsWith(key_split, <<"O", "u", "t", " ">>)
        THEN ReplacePrefix(key_split, <<"O", "u", "t", " ">>, <<"O", "u", "t", "d", "o", "o", "r", " ">>)
        ELSE IF StartsWith(key_split, <<"T", "x", " ">>)
        THEN ReplacePrefix(key_split, <<"T", "x", " ">>, <<"T", "r", "a", "n", "s", "m", "i", "t", " ">>)
        ELSE IF StartsWith(key_split, <<"R", "x", " ">>)
        THEN ReplacePrefix(key_split, <<"R", "x", " ">>, <<"R", "e", "c", "e", "i", "v", "e", " ">>)
        ELSE key_split

\* GuessTemplate with the tests in the opposite order
GuessTemplateLastFirst(key_split) ==
    LET lower == Lowered(key_split)
    IN  IF Contains(lower, <<"t", "e", "m", "p", "e", "r", "a", "t", "u", "r", "e">>) THEN Get(KEY_CONFIG, outTemp)
        ELSE IF Contains(lower, <<"p", "r", "e", "s", "s", "u", "r", "e">>) THEN Get(KEY_CONFIG, pressure)
        ELSE IF Contains(lower, <<"h", "u", "m", "i", "d", "i", "t", "y">>) THEN Get(KEY_CONFIG, outHumidity)
        ELSE IF Contains(lower, <<"a", "l", "a", "r", "m">>) THEN Get(KEY_CONFIG, extraAlarm)
        ELSE [metadata |-> EmptyDict]

\* the template guessed from the synthesized name
GuessTemplate(key_split) ==
    LET lower == Lowered(key_split)
    IN  IF Contains(lower, <<"a", "l", "a", "r", "m">>) THEN Get(KEY_CONFIG, extraAlarm)
        ELSE IF Contains(lower, <<"h", "u", "m", "i", "d", "i", "t", "y">>) THEN Get(KEY_CONFIG, outHumidity)
        ELSE IF Contains(lower, <<"p", "r", "e", "s", "s", "u", "r", "e">>) THEN Get(KEY_CONFIG, pressure)
        ELSE IF Contains(lower, <<"t", "e", "m", "p", "e", "r", "a", "t", "u", "r", "e">>) THEN Get(KEY_CONFIG, outTemp)
        ELSE [metadata |-> EmptyDict]

\* get_key_config with the numeric suffix stripped before the exact match is tried
get_key_config_suffix_first(weewx_key) ==
    LET n == TrailingDigits(weewx_key)
        base_key == SubSeq(weewx_key, 1, Len(weewx_key) - n)
        suffix == SubSeq(weewx_key, Len(weewx_key) - n + 1, Len(weewx_key))
        base == Get(KEY_CONFIG, base_key)
        key_split == SynthesizedName(weewx_key)
    IN  IF n > 0 /\ Truthy(base_key)
        THEN SetName(base, SuffixedName(base, suffix))
        ELSE IF Truthy(weewx_key) THEN Get(KEY_CONFIG, weewx_key)
        ELSE SetName(GuessTemplate(key_split), Text(key_split))

\* get_key_config as a plain table lookup, KEY_CONFIG[weewx_key]
get_key_config_lookup(weewx_key) ==
    IF Has(KEY_CONFIG, weewx_key) THEN Get(KEY_CONFIG, weewx_key) ELSE Failed("KeyError")

get_key_config(weewx_key) ==
    LET n == TrailingDigits(weewx_key)
        base_key == SubSeq(weewx_key, 1, Len(weewx_key) - n)
        suffix == SubSeq(weewx_key, Len(weewx_key) - n + 1, Len(weewx_key))
        base == Get(KEY_CONFIG, base_key)
        key_split == SynthesizedName(weewx_key)
    IN  IF Truthy(weewx_key) THEN Get(KEY_CONFIG, weewx_key)
        ELSE IF n > 0 /\ Truthy(base_key)
        THEN SetName(base, SuffixedName(base, suffix))
        ELSE SetName(GuessTemplate(key_split), Text(key_split))

(***************************************************************************)
(* get_unit_metadata                                                       *)
(***************************************************************************)
UNIT_METADATA == [
    cm |-> [unit_of_measurement |-> Str("cm"), value_template |-> Str("{{ value | round(2) }}")],
    degree_C |-> [unit_of_measurement |-> Str("(deg)C"), value_template |-> Str("{{ value | round(1) }}")],
    degree_F |-> [unit_of_measurement |-> Str("(deg)F"), value_template |-> Str("{{ value | round(1) }}")],
    degree_compass |-> [unit_of_measurement |-> Str("(deg)"), value_template |-> Str("{{ value | round(0) }}")],
    inHg |-> [unit_of_measurement |-> Str("inHg"), value_template |-> Str("{{ value | round(2) }}")],
    inch |-> [unit_of_measurement |-> Str("in"), value_template |-> Str("{{ value | round(2) }}")],
    mbar |-> [unit_of_measurement |-> Str("mbar"), value_template |-> Str("{{ value | round(2) }}")],
    mm |-> [unit_of_measurement |-> Str("mm"), value_template |-> Str("{{ value | round(2) }}")],
    percent |-> [unit_of_measurement |-> Str("%"), value_template |-> Str("{{ value | round(0) }}")],
    unix_epoch |-> [unit_of_measurement |-> None]]

\* The unit system the publishers were constructed with (the default).
unit_system == "METRICWX"

\* weewx.units.obs_group_dict, for the observation types the model names: the
\* unit group of an observation type, None for a type weewx does not know
ObsGroup(obs_type) ==
    IF obs_type \in {windDir} THEN Str("group_direction")
    ELSE IF obs_type \in {outTemp} \cup {extraTemp \o <<d>> : d \in {"1", "2", "3", "4", "5", "6", "7", "8"}}
    THEN Str("group_temperature")
    ELSE IF obs_type = pressure THEN Str("group_pressure")
    ELSE IF obs_type = outHumidity THEN Str("group_percent")
    ELSE IF obs_type = dateTime THEN Str("group_time")
    ELSE IF obs_type = ET THEN Str("group_rain")
    ELSE IF obs_type \in {<<"s", "o", "i", "l", "M", "o", "i", "s", "t">> \o <<d>> :
                              d \in {"1", "2", "3", "4"}}
    THEN Str("group_moisture")
    ELSE None

\* weewx.units.getStandardUnitType(unit_system, obs_type): the unit, None if unknown
getStandardUnitType(us, obs_type) ==
    LET group == ObsGroup(obs_type)
    IN  IF group = None THEN None
        ELSE IF group = Str("group_direction") THEN Str("degree_compass")
        ELSE IF group = Str("group_temperature")
        THEN (IF us = "US" THEN Str("degree_F") ELSE Str("degree_C"))
        ELSE IF group = Str("group_pressure")
        THEN (IF us = "US" THEN Str("inHg") ELSE Str("mbar"))
        ELSE IF group = Str("group_percent") THEN Str("percent")
        ELSE IF group = Str("group_time") THEN Str("unix_epoch")
        ELSE IF group = Str("group_moisture") THEN Str("centibar")
        ELSE (IF us = "US" THEN Str("inch") ELSE IF us = "METRIC" THEN Str("cm") ELSE Str("mm"))

\* get_unit_metadata with no guess for a key weewx knows no unit of
get_unit_metadata_no_guess(measurement_name, us) ==
    LET target_unit == getStandardUnitType(us, measurement_name)
    IN  IF target_unit # None /\ target_unit[2] \in DOMAIN UNIT_METADATA
        THEN UNIT_METADATA[target_unit[2]]
        ELSE [unit_of_measurement |-> target_unit]

\* get_unit_metadata logs "No unit found for measurement ..."
get_unit_metadata_warning(measurement_name, us) ==
    /\ getStandardUnitType(us, measurement_name) = None
    /\ measurement_name # usUnits
    /\ ~EndsWith(measurement_name, ET)
    /\ measurement_name \notin {sunrise, sunset, stormStart}

get_unit_metadata(measurement_name, us) ==
    LET found == getStandardUnitType(us, measurement_name)
        target_unit ==
            IF found # None THEN found
            ELSE IF measurement_name = usUnits THEN None
            ELSE IF EndsWith(measurement_name, ET) THEN getStandardUnitType(us, ET)
            ELSE IF measurement_name \in {sunrise, sunset, stormStart}
            THEN getStandardUnitType(us, dateTime)
            ELSE None
    IN  IF target_unit # None /\ target_unit[2] \in DOMAIN UNIT_METADATA
        THEN UNIT_METADATA[target_unit[2]]
        ELSE [unit_of_measurement |-> target_unit]

(***************************************************************************)
(* The resolver on its own: a key is drawn, get_key_config is applied.     *)
(***************************************************************************)
\* runs of at most n digits, drawn from the digits 0, 1 and 3
RECURSIVE DigitRuns(_)
DigitRuns(n) ==
    IF n = 0 THEN {<<>>}
    ELSE DigitRuns(n - 1) \cup
         {run \o <<d>> : run \in DigitRuns(n - 1), d \in {"0", "1", "3"}}

\* keys that are not in the sensor table
UnknownStems == {<<"f", "o", "o">>, <<"t", "x", "A", "l", "a", "r", "m">>,
                 <<"o", "u", "t", "T", "e", "m", "p", "e", "r", "a", "t", "u", "r", "e">>,
                 <<>>,
                 <<"t", "e", "m", "p", "e", "r", "a", "t", "u", "r", "e", "A", "l", "a", "r", "m">>,
                 <<"p", "r", "e", "s", "s", "u", "r", "e", "H", "u", "m", "i", "d", "i", "t", "y">>,
                 <<"d", "a", "y">> \o ET, sunrise, stormStart,
                 <<"s", "o", "i", "l", "M", "o", "i", "s", "t">>}

ResolverKeys ==
    {stem \o run : stem \in Keys(KEY_CONFIG_TABLE \o SENSOR_OVERLAY) \cup UnknownStems,
                   run \in DigitRuns(MaxDigits)}

\* packets, births: the events the host and the broker have delivered; ignored:
\* the messages delivered that were not Home Assistant's birth message;
\* connected: mqtt_client.is_connected(); phase: "up" until shutDown is called,
\* "stopping" while executor.shutdown(wait=True) waits, "down" once it returned;
\* dropped: the packets and records that arrived while the client was not connected
InitEnv == [packets |-> 0, births |-> 0, connected |-> TRUE, phase |-> "up",
            dropped |-> 0, ignored |-> 0]

\* lost: the kinds of the tasks a done-callback could not submit; documented: the
\* keys whose discovery document has been published to the sink
InitGhost == [state_calls |-> 0, dirty |-> {}, clean |-> 0, lost |-> {},
              documented |-> {}]

InitSystem ==
    /\ sensor_overlay \in SensorOverlays
    /\ table_writes = EmptyDict
    /\ seen_measurements = <<>>
    /\ device_description =
           [device |-> Dict([identifiers |-> List(<<"weewx">>),
                             name |-> Str("Station"),
                             model |-> Str("Vantage"),
                             manufacturer |-> Str("Davis")])]
    /\ settled_countdown = SETTLE_COUNTDOWN_START
    /\ queue = <<>>
    /\ running = {}
    /\ env = InitEnv
    /\ ghost = InitGhost

InitResolve ==
    /\ InitSystem
    /\ rkey \in ResolverKeys
    /\ rres = <<>>

Resolve ==
    /\ Len(rres) = 0
    /\ \E us \in DOMAIN UnitSystemInt :
           rres' = <<get_key_config(rkey), get_unit_metadata(rkey, us),
                     get_unit_metadata_warning(rkey, us), us>>
    /\ UNCHANGED <<sensor_overlay, table_writes, seen_measurements, device_description,
                   settled_countdown, queue, running, env, ghost, rkey>>

NextResolve == Resolve

SpecResolve == InitResolve /\ [][NextResolve]_vars

(***************************************************************************)
(* The conversions on their own: an input is drawn, the function applied.  *)
(***************************************************************************)
\* directions in quarters of a degree, negative ones and more than a turn included
Directions == (-MaxQuarters)..MaxQuarters

InitCardinal ==
    /\ InitSystem
    /\ rkey \in Directions
    /\ rres = <<>>

\* degrees_to_cardinal(rkey / 4)
Cardinal ==
    /\ Len(rres) = 0
    /\ rres' = <<degrees_to_cardinal_q(rkey)>>
    /\ UNCHANGED <<sensor_overlay, table_writes, seen_measurements, device_description,
                   settled_countdown, queue, running, env, ghost, rkey>>

NextCardinal == Cardinal

SpecCardinal == InitCardinal /\ [][NextCardinal]_vars

\* integer codes and strings given to UnitSystem
UnitInputs ==
    [kind : {"int"}, v : (-MaxCode)..MaxCode]
        \cup [kind : {"str"}, v : {"US", "METRIC", "METRICWX", "us", "Metric", "IMPERIAL", ""}]

InitUnits ==
    /\ InitSystem
    /\ rkey \in UnitInputs
    /\ rres = <<>>

\* UnitSystem.from_int(rkey.v)
FromInt ==
    /\ Len(rres) = 0
    /\ rkey.kind = "int"
    /\ rres' = <<from_int(rkey.v)>>
    /\ UNCHANGED <<sensor_overlay, table_writes, seen_measurements, device_description,
                   settled_countdown, queue, running, env, ghost, rkey>>

\* UnitSystem(rkey.v)
FromValue ==
    /\ Len(rres) = 0
    /\ rkey.kind = "str"
    /\ rres' = <<UnitSystem_call(rkey.v)>>
    /\ UNCHANGED <<sensor_overlay, table_writes, seen_measurements, device_description,
                   settled_countdown, queue, running, env, ghost, rkey>>

NextUnits == FromInt \/ FromValue

SpecUnits == InitUnits /\ [][NextUnits]_vars

(***************************************************************************)
(* locale_loader: the tables read from YAML files.  A mapping is           *)
(* Dict(f), f a function from its keys; a scalar is Str(s).                 *)
(***************************************************************************)
IsMapping(value) == value[1] = "dict"

\* _deep_merge when the overlay's entries replace the base's, as dict.update does
deep_merge_shallow(base, overlay) == overlay @@ base

\* _deep_merge(base, overlay), on the functions of two mappings
RECURSIVE deep_merge(_, _)
deep_merge(base, overlay) ==
    [key \in DOMAIN base \cup DOMAIN overlay |->
        IF key \notin DOMAIN overlay THEN base[key]
        ELSE IF /\ key \in DOMAIN base
                /\ IsMapping(base[key]) /\ IsMapping(overlay[key])
        THEN Dict(deep_merge(base[key][2], overlay[key][2]))
        ELSE overlay[key]]

\* the index of the last "." of a file name, 0 if it has none
RECURSIVE LastDot(_)
LastDot(name) ==
    IF name = <<>> THEN 0
    ELSE IF name[Len(name)] = "." THEN Len(name)
    ELSE LastDot(SubSeq(name, 1, Len(name) - 1))

\* base_filename.rsplit(".", maxsplit=1)[0]
override_key(base_filename) ==
    IF LastDot(base_filename) = 0 THEN base_filename
    ELSE SubSeq(base_filename, 1, LastDot(base_filename) - 1)

\* f"{name}_{lang}.{ext}"
localized_filename(base_filename, lang) ==
    SubSeq(base_filename, 1, LastDot(base_filename) - 1) \o <<"_">> \o lang
        \o SubSeq(base_filename, LastDot(base_filename), Len(base_filename))

\* the table after the base file and the localized file: files holds the content
\* of the files that exist in the locales directory
Localized(files, base_filename, lang) ==
    LET base_data == Get(files, base_filename)
    IN  IF /\ lang # None /\ lang # <<>>
           /\ LastDot(base_filename) > 0
           /\ Has(files, localized_filename(base_filename, lang))
        THEN deep_merge(base_data, Get(files, localized_filename(base_filename, lang)))
        ELSE base_data

\* whether load_yaml applies an override: _config_overrides (None, or Dict of an
\* ordered dict) is not empty and has a non-empty table under the key of the file
Overrides(base_filename, config_overrides) ==
    /\ config_overrides # None
    /\ config_overrides[2] # <<>>
    /\ Has(config_overrides[2], override_key(base_filename))
    /\ Get(config_overrides[2], override_key(base_filename)) # EmptyDict

\* load_yaml when the config override is merged before the localized file
load_yaml_override_first(files, base_filename, lang, config_overrides) ==
    IF ~Has(files, base_filename) THEN EmptyDict
    ELSE LET base_data == Get(files, base_filename)
             overridden ==
                 IF Overrides(base_filename, config_overrides)
                 THEN deep_merge(base_data,
                                 Get(config_overrides[2], override_key(base_filename)))
                 ELSE base_data
         IN  IF /\ lang # None /\ lang # <<>>
                /\ LastDot(base_filename) > 0
                /\ Has(files, localized_filename(base_filename, lang))
             THEN deep_merge(overridden,
                             Get(files, localized_filename(base_filename, lang)))
             ELSE overridden

\* load_yaml(base_filename, language) with _config_overrides = config_overrides
load_yaml(files, base_filename, lang, config_overrides) ==
    IF ~Has(files, base_filename) THEN EmptyDict
    ELSE LET result == Localized(files, base_filename, lang)
         IN  IF Overrides(base_filename, config_overrides)
             THEN deep_merge(result,
                             Get(config_overrides[2], override_key(base_filename)))
             ELSE result

(***************************************************************************)
(* The loader on its own: a locales directory, a language and the config   *)
(* overrides are drawn; the table is loaded without and with the overrides.*)
(***************************************************************************)
sensors_yaml == <<"s", "e", "n", "s", "o", "r", "s", ".", "y", "a", "m", "l">>
units_yaml == <<"u", "n", "i", "t", "s", ".", "y", "a", "m", "l">>
enums_yaml == <<"e", "n", "u", "m", "s", ".", "y", "a", "m", "l">>
BaseFilenames == {sensors_yaml, units_yaml, enums_yaml}

\* the keys under which the controller stores the overrides
OverrideKeys == {<<"s", "e", "n", "s", "o", "r", "s">>, <<"u", "n", "i", "t", "s">>,
                 <<"e", "n", "u", "m", "s">>}

\* the language of the localized files of the directory
cs == <<"c", "s">>

\* mappings over a set of keys in which every value is one of values
MappingsOver(keys, values) == UNION {[present -> values] : present \in SUBSET keys}

\* the tables a layer can hold: an entry outTemp that is a scalar or a mapping
\* with source (a scalar) and metadata (a scalar or a mapping with name and
\* device_class), and, if others, a scalar entry windDir.  Every scalar of a
\* layer is the layer's tag, so that a loaded value tells the layer it is from.
LayerTables(tag, others) ==
    LET metadata == {Str(tag)} \cup
                    {Dict(m) : m \in MappingsOver({"name", "device_class"}, {Str(tag)})}
        entries == {e \in MappingsOver({"metadata", "source"}, metadata) :
                        "source" \in DOMAIN e => e["source"] = Str(tag)}
        values == {Str(tag)} \cup {Dict(e) : e \in entries}
    IN  {t \in MappingsOver({"outTemp"} \cup (IF others THEN {"windDir"} ELSE {}), values) :
             "windDir" \in DOMAIN t => t["windDir"] = Str(tag)}

\* the locales directory: the base file, if there is one, and its Czech
\* localization, if there is one
Directories(base_filename) ==
    {<<>>}
        \cup {<< <<base_filename, base>> >> : base \in LayerTables("base", TRUE)}
        \cup {<< <<base_filename, base>>, <<localized_filename(base_filename, cs), loc>> >> :
                    base \in LayerTables("base", TRUE), loc \in LayerTables("loc", FALSE)}

\* _config_overrides: None, or the overrides of one of the three tables
ConfigOverrides ==
    {None} \cup {Dict(<< <<key, conf>> >>) : key \in OverrideKeys,
                                             conf \in LayerTables("conf", FALSE)}

LoaderInputs ==
    UNION {[files : Directories(base_filename), base_filename : {base_filename},
            lang : {None, cs}, config_overrides : ConfigOverrides] :
               base_filename \in BaseFilenames}

InitLoader ==
    /\ InitSystem
    /\ sensor_overlay = <<>>
    /\ rkey \in LoaderInputs
    /\ rres = <<>>

\* set_config_overrides(None); load_yaml(base_filename, lang)
LoadPlain ==
    /\ Len(rres) = 0
    /\ rres' = <<load_yaml(rkey.files, rkey.base_filename, rkey.lang, None)>>
    /\ UNCHANGED <<sensor_overlay, table_writes, seen_measurements, device_description,
                   settled_countdown, queue, running, env, ghost, rkey>>

\* set_config_overrides(config_overrides); load_yaml(base_filename, lang)
LoadOverridden ==
    /\ Len(rres) = 1
    /\ rres' = Append(rres, load_yaml(rkey.files, rkey.base_filename, rkey.lang,
                                      rkey.config_overrides))
    /\ UNCHANGED <<sensor_overlay, table_writes, seen_measurements, device_description,
                   settled_countdown, queue, running, env, ghost, rkey>>

NextLoader == LoadPlain \/ LoadOverridden

SpecLoader == InitLoader /\ [][NextLoader]_vars

(***************************************************************************)
(* The publishers' configuration (Controller.__init__).                    *)
(***************************************************************************)
state_topic_prefix == "weather"
discovery_topic_prefix == "homeassistant"
node_id == "weewx"
availability_topic == "weather/status"

\* f"{self.state_topic_prefix}/{key}"
StateTopic(key) == <<state_topic_prefix, key>>

\* f"{self.discovery_topic_prefix}/{integration}/{self.node_id}/{sensor_name}/config"
DiscoveryTopic(integration, sensor_name) ==
    <<discovery_topic_prefix, integration, node_id, sensor_name, "config">>

(***************************************************************************)
(* Packets.  A packet is an ordered dict from keys to numbers or None.  The *)
(* packets of the model come from a station that reports in US units       *)
(* (usUnits = 1) and carry, besides usUnits, compass directions, which are *)
(* in degrees in every unit system.                                        *)
(***************************************************************************)
\* weewx.units.to_std_system: the packet in the unit system us
to_std_system(packet, us) ==
    [n \in DOMAIN packet |->
        IF packet[n][1] = usUnits THEN <<usUnits, Num(UnitSystemInt[us])>> ELSE packet[n]]

Packets == {
    << <<usUnits, Num(1)>>, <<windDir, Num(45)>> >>,
    << <<usUnits, Num(1)>>, <<windDir, None>> >>,
    << <<usUnits, Num(1)>>, <<windDirCardinal, Num(2)>> >>,
    << <<usUnits, Num(1)>>, <<windDir, Num(45)>>, <<windDirCardinal, None>> >>
    }

(***************************************************************************)
(* Tasks.  A task in the queue is [kind, packet]; a running task carries   *)
(* the locals of the function it runs.                                     *)
(***************************************************************************)
Task(kind, packet) == [kind |-> kind, packet |-> packet]

Started(worker, task) ==
    [worker |-> worker, kind |-> task.kind,
     \* packet = to_std_system(packet, int(self.unit_system)) in the publishers
     packet |-> IF task.kind \in {"state", "config"}
                THEN to_std_system(task.packet, unit_system) ELSE task.packet,
     pc |-> CASE task.kind = "preprocess" -> "run"
              [] task.kind = "state" -> "check"
              [] task.kind = "config" -> "key"
              [] task.kind = "discovery" -> "iter",
     \* the index of the packet entry (or registry entry) being worked on
     i |-> 1,
     \* the index of the KEY_CONFIG item the cascade is at
     j |-> 1,
     \* the value loaded for  settled_countdown -= 1 ; the size the dict
     \* iterator was created at
     tmp |-> 0,
     \* found_new_measurements
     found |-> FALSE,
     \* the exception the task ended with, "" for none
     exc |-> "",
     \* what the call has published, in order, as <<topic, payload>>
     out |-> <<>>,
     \* the keys the call has logged "Could not find configuration for key" for
     warned |-> {},
     \* the derived sensors the call has logged "no convert_lambda" for
     unconverted |-> {},
     \* history: the number of this call among the calls of state publication
     call |-> 0,
     \* history: <<derived key, source key, value>> for the derived entries
     \* registered when the call began whose source the packet carries with a value
     owed |-> {},
     \* history: the keys whose registry entry the call has read while the entry
     \* was not complete
     partial |-> {},
     \* history: the packet keys the call has found missing from the registry
     missing |-> {},
     \* history: the keys the call has looked up and found in the registry
     looked_up |-> {},
     \* history: the keys the call has added to the registry
     inserted |-> {}]

\* the running task t becomes u
Becomes(t, u) == running' = (running \ {t}) \cup {u}

\* the registry becomes reg.  History: a discovery call that is running when the
\* registry changes is no longer a call made on an unchanged registry
\* (ghost.dirty), and no discovery call has completed on the registry as it is
\* now (ghost.clean)
Registry(reg) ==
    /\ seen_measurements' = reg
    /\ ghost' = IF reg = seen_measurements THEN ghost
                ELSE [ghost EXCEPT
                         !.dirty = {t.worker : t \in {r \in running : r.kind = "discovery"}},
                         !.clean = 0]

(***************************************************************************)
(* Controller: the host's events and the pool.                             *)
(***************************************************************************)
InFlight == Len(queue) + Cardinality(running)

\* executor._shutdown
executor_shutdown == env.phase # "up"

\* executor.submit: RuntimeError once the executor is shut down
Submit(tasks) == IF executor_shutdown THEN queue ELSE queue \o tasks

\* the body of on_weewx_loop and of on_weewx_archive: the packet is submitted to
\* the preprocessor if the client is connected, and only logged otherwise
Arrive(packet) ==
    /\ queue' = IF env.connected THEN Submit(<<Task("preprocess", packet)>>) ELSE queue
    /\ env' = [env EXCEPT !.packets = @ + 1,
                          !.dropped = IF env.connected THEN @ ELSE @ + 1]

\* on_weewx_loop; the host delivers no event once it has called shutDown
on_weewx_loop(packet) ==
    /\ env.packets < MaxPackets
    /\ InFlight < MaxInFlight
    /\ env.phase = "up"
    /\ Arrive(packet)
    /\ UNCHANGED <<sensor_overlay, table_writes, seen_measurements, device_description,
                   settled_countdown, running, ghost, rkey, rres>>

\* on_weewx_loop when the tasks of the packets before it have all finished
on_weewx_loop_paced(packet) ==
    /\ env.packets < MaxPacedPackets
    /\ InFlight = 0
    /\ env.phase = "up"
    /\ Arrive(packet)
    /\ UNCHANGED <<sensor_overlay, table_writes, seen_measurements, device_description,
                   settled_countdown, running, ghost, rkey, rres>>

\* on_weewx_archive when it submits whether the client is connected or not
on_weewx_archive_unchecked(record) ==
    /\ env.packets < MaxRecords
    /\ InFlight < MaxInFlight
    /\ env.phase = "up"
    /\ queue' = Submit(<<Task("preprocess", record)>>)
    /\ env' = [env EXCEPT !.packets = @ + 1,
                          !.dropped = IF env.connected THEN @ ELSE @ + 1]
    /\ UNCHANGED <<sensor_overlay, table_writes, seen_measurements, device_description,
                   settled_countdown, running, ghost, rkey, rres>>

\* on_weewx_archive
on_weewx_archive(record) ==
    /\ env.packets < MaxRecords
    /\ InFlight < MaxInFlight
    /\ env.phase = "up"
    /\ Arrive(record)
    /\ UNCHANGED <<sensor_overlay, table_writes, seen_measurements, device_description,
                   settled_countdown, running, ghost, rkey, rres>>

\* Home Assistant's birth message: "online" on <discovery-prefix>/status
Birth == [topic |-> <<discovery_topic_prefix, "status">>, payload |-> "online"]

\* the messages the broker can deliver: the birth message, Home Assistant's last
\* will on the same topic, and "online" on another topic
Messages == {Birth,
             [topic |-> <<discovery_topic_prefix, "status">>, payload |-> "offline"],
             [topic |-> <<state_topic_prefix, "status">>, payload |-> "online"]}

\* on_mqtt_message submitting publish_discovery whatever the message is
on_mqtt_message_any(msg) ==
    /\ env.births + env.ignored < MaxBirths
    /\ InFlight < MaxInFlight
    /\ env.connected
    /\ queue' = Submit(<<Task("discovery", <<>>)>>)
    /\ env' = IF msg = Birth THEN [env EXCEPT !.births = @ + 1]
              ELSE [env EXCEPT !.ignored = @ + 1]
    /\ UNCHANGED <<sensor_overlay, table_writes, seen_measurements, device_description,
                   settled_countdown, running, ghost, rkey, rres>>

\* on_mqtt_message(client, userdata, msg), called by the client's network thread
\* while the client is connected
on_mqtt_message(msg) ==
    /\ env.births + env.ignored < MaxBirths
    /\ InFlight < MaxInFlight
    /\ env.connected
    /\ IF msg.topic = <<discovery_topic_prefix, "status">> /\ msg.payload = "online"
       THEN /\ queue' = Submit(<<Task("discovery", <<>>)>>)
            /\ env' = [env EXCEPT !.births = @ + 1]
       ELSE /\ queue' = queue
            /\ env' = [env EXCEPT !.ignored = @ + 1]
    /\ UNCHANGED <<sensor_overlay, table_writes, seen_measurements, device_description,
                   settled_countdown, running, ghost, rkey, rres>>

\* a free worker takes the oldest task of the queue
WorkerStart ==
    /\ queue # <<>>
    /\ Cardinality(running) < THREAD_POOL_SIZE
    /\ LET free == (1..THREAD_POOL_SIZE) \ {t.worker : t \in running}
       IN  running' = running \cup {Started(CHOOSE w \in free : \A v \in free : w <= v,
                                            Head(queue))}
    /\ queue' = Tail(queue)
    /\ UNCHANGED <<sensor_overlay, table_writes, seen_measurements, device_description,
                   settled_countdown, env, ghost, rkey, rres>>

\* Callback with a check_config_update that submits nothing: the discovery
\* documents are published for Home Assistant's birth message only
CallbackBirthOnly(t) ==
    IF t.exc # "" THEN <<>>
    ELSE IF t.kind = "preprocess"
    THEN <<Task("state", t.packet), Task("config", t.packet)>>
    ELSE <<>>

\* what a finished task's done-callback submits: preprocessor_complete,
\* check_config_update, check_future_errors
Callback(t) ==
    IF t.exc # "" THEN <<>>
    ELSE IF t.kind = "preprocess"
    THEN <<Task("state", t.packet), Task("config", t.packet)>>
    ELSE IF t.kind = "config" /\ t.found THEN <<Task("discovery", <<>>)>>
    ELSE <<>>

\* WorkerFinish when the exception of a task is not caught and ends its worker
WorkerFinishUncaught ==
    \E t \in running :
        /\ t.pc = "done" /\ t.exc = ""
        /\ running' = running \ {t}
        /\ queue' = Submit(Callback(t))
        /\ UNCHANGED <<sensor_overlay, table_writes, seen_measurements, device_description,
                       settled_countdown, env, ghost, rkey, rres>>

\* a task ends: its callback runs and the worker is free again
WorkerFinish ==
    \E t \in running :
        /\ t.pc = "done"
        /\ running' = running \ {t}
        /\ queue' = Submit(Callback(t))
        /\ ghost' = [ghost EXCEPT
                         !.lost = IF executor_shutdown
                                  THEN @ \cup {Callback(t)[n].kind : n \in DOMAIN Callback(t)}
                                  ELSE @,
                         !.dirty = @ \ {t.worker},
                         !.clean = IF /\ t.kind = "discovery" /\ t.exc = ""
                                      /\ t.worker \notin ghost.dirty /\ @ < 2
                                   THEN @ + 1 ELSE @]
        /\ UNCHANGED <<sensor_overlay, table_writes, seen_measurements, device_description,
                       settled_countdown, env, rkey, rres>>

\* PacketPreprocessor.process_packet
PreprocessRun ==
    \E t \in running :
        /\ t.kind = "preprocess" /\ t.pc = "run"
        /\ Becomes(t, [t EXCEPT !.pc = "done"])
        /\ UNCHANGED <<sensor_overlay, table_writes, seen_measurements, device_description,
                       settled_countdown, queue, env, ghost, rkey, rres>>

(***************************************************************************)
(* StatePublisher.process_packet                                           *)
(***************************************************************************)
\* NextValue when the loop does not skip the entries whose value is None
NextValueAny(packet, i) == i

\* the index of the first entry of packet at or after i whose value is not None
\* (the loop skips the others), Len(packet) + 1 if there is none
NextValue(packet, i) ==
    IF \E n \in i..Len(packet) : packet[n][2] # None
    THEN CHOOSE n \in i..Len(packet) :
             /\ packet[n][2] # None
             /\ \A m \in i..(n - 1) : packet[m][2] = None
    ELSE Len(packet) + 1

\* the loop of process_packet moves on to the entry at or after i
StateAt(t, i) ==
    LET n == NextValue(t.packet, i)
    IN  [t EXCEPT !.i = n, !.pc = IF n > Len(t.packet) THEN "done" ELSE "lookup"]

\* history: what the derived entries registered now are owed by a call on packet
Owed(packet) ==
    {<<seen_measurements[n][1], seen_measurements[n][2]["source"],
       Convert(seen_measurements[n][2]["convert_lambda"], Get(packet, seen_measurements[n][2]["source"]))>> :
        n \in {m \in DOMAIN seen_measurements :
                  /\ "source" \in DOMAIN seen_measurements[m][2]
                  /\ "convert_lambda" \in DOMAIN seen_measurements[m][2]
                  /\ Has(packet, seen_measurements[m][2]["source"])
                  /\ Get(packet, seen_measurements[m][2]["source"]) # None}}

\* history: the entry registered for key is not one that insertion has finished:
\* it is empty, or has no metadata, or its metadata lacks the unit's
Incomplete(key, config) ==
    \/ config = EmptyDict
    \/ "metadata" \notin DOMAIN config
    \/ \E k \in DOMAIN get_unit_metadata(key, unit_system) : k \notin DOMAIN config["metadata"]

\* if self.settled_countdown > 0:
StateCheck ==
    \E t \in running :
        /\ t.kind = "state" /\ t.pc = "check"
        /\ LET u == [t EXCEPT !.call = ghost.state_calls + 1,
                              !.owed = Owed(t.packet)]
           IN  IF settled_countdown > 0
               THEN Becomes(t, [u EXCEPT !.pc = "load"])
               ELSE Becomes(t, StateAt(u, 1))
        /\ ghost' = [ghost EXCEPT !.state_calls = @ + 1]
        /\ UNCHANGED <<sensor_overlay, table_writes, seen_measurements, device_description,
                       settled_countdown, queue, env, rkey, rres>>

\* self.settled_countdown -= 1, the load
StateLoad ==
    \E t \in running :
        /\ t.kind = "state" /\ t.pc = "load"
        /\ Becomes(t, [t EXCEPT !.tmp = settled_countdown, !.pc = "store"])
        /\ UNCHANGED <<sensor_overlay, table_writes, seen_measurements, device_description,
                       settled_countdown, queue, env, ghost, rkey, rres>>

\* self.settled_countdown -= 1, the store
StateStore ==
    \E t \in running :
        /\ t.kind = "state" /\ t.pc = "store"
        /\ settled_countdown' = t.tmp - 1
        /\ Becomes(t, StateAt(t, 1))
        /\ UNCHANGED <<sensor_overlay, table_writes, seen_measurements, device_description,
                       queue, env, ghost, rkey, rres>>

\* StateLookup without the registry test: the value of a key that is not
\* registered is published as it is, and the derived sensors are scanned for it
StateLookupUnchecked ==
    \E t \in running :
        /\ t.kind = "state" /\ t.pc = "lookup"
        /\ LET key == t.packet[t.i][1]
               value == t.packet[t.i][2]
               config == Get(seen_measurements, key)
               converted == IF Has(seen_measurements, key) /\ "convert_lambda" \in DOMAIN config
                            THEN Convert(config["convert_lambda"], value)
                            ELSE value
               u == IF Has(seen_measurements, key)
                    THEN [t EXCEPT !.looked_up = @ \cup {key}]
                    ELSE [t EXCEPT !.missing = @ \cup {key}]
           IN  IF IsRaised(converted)
               THEN Becomes(t, [u EXCEPT !.exc = converted[2], !.pc = "done"])
               ELSE Becomes(t, [u EXCEPT !.out = Append(@, <<StateTopic(key), converted>>),
                                         !.pc = "derived"])
        /\ UNCHANGED <<sensor_overlay, table_writes, seen_measurements, device_description,
                       settled_countdown, queue, env, ghost, rkey, rres>>

\* StateLookup with the conversion guarded: a key whose conversion raises is
\* skipped and the call goes on to the next entry of the packet
StateLookupGuarded ==
    \E t \in running :
        /\ t.kind = "state" /\ t.pc = "lookup"
        /\ LET key == t.packet[t.i][1]
               value == t.packet[t.i][2]
               config == Get(seen_measurements, key)
               converted == IF "convert_lambda" \in DOMAIN config
                            THEN Convert(config["convert_lambda"], value)
                            ELSE value
           IN  IF ~Has(seen_measurements, key)
               THEN Becomes(t, StateAt([t EXCEPT !.warned =
                                           IF settled_countdown = 0 THEN @ \cup {key} ELSE @,
                                                 !.missing = @ \cup {key}],
                                       t.i + 1))
               ELSE LET u == [t EXCEPT !.looked_up = @ \cup {key},
                                       !.partial = IF Incomplete(key, config)
                                                   THEN @ \cup {key} ELSE @]
                    IN  IF IsRaised(converted)
                        THEN Becomes(t, StateAt(u, t.i + 1))
                        ELSE Becomes(t, [u EXCEPT !.out = Append(@, <<StateTopic(key), converted>>),
                                                  !.pc = "derived"])
        /\ UNCHANGED <<sensor_overlay, table_writes, seen_measurements, device_description,
                       settled_countdown, queue, env, ghost, rkey, rres>>

\* StateLookup reading the registry with seen_measurements[key]: the defaultdict
\* inserts an empty entry for a key it does not hold, and the value is published
StateLookupInserting ==
    \E t \in running :
        /\ t.kind = "state" /\ t.pc = "lookup"
        /\ LET key == t.packet[t.i][1]
               value == t.packet[t.i][2]
               config == Get(seen_measurements, key)
               converted == IF Has(seen_measurements, key) /\ "convert_lambda" \in DOMAIN config
                            THEN Convert(config["convert_lambda"], value)
                            ELSE value
               u == IF Has(seen_measurements, key)
                    THEN [t EXCEPT !.looked_up = @ \cup {key}]
                    ELSE [t EXCEPT !.missing = @ \cup {key}]
           IN  /\ IF IsRaised(converted)
                  THEN Becomes(t, [u EXCEPT !.exc = converted[2], !.pc = "done"])
                  ELSE Becomes(t, [u EXCEPT !.out = Append(@, <<StateTopic(key), converted>>),
                                            !.pc = "derived"])
               /\ seen_measurements' = IF Has(seen_measurements, key)
                                       THEN seen_measurements
                                       ELSE Put(seen_measurements, key, EmptyDict)
        /\ UNCHANGED <<sensor_overlay, table_writes, device_description,
                       settled_countdown, queue, env, ghost, rkey, rres>>

\* one entry of the packet: the lookup, the warning or the conversion and the publish
StateLookup ==
    \E t \in running :
        /\ t.kind = "state" /\ t.pc = "lookup"
        /\ LET key == t.packet[t.i][1]
               value == t.packet[t.i][2]
               config == Get(seen_measurements, key)
               converted == IF "convert_lambda" \in DOMAIN config
                            THEN Convert(config["convert_lambda"], value)
                            ELSE value
           IN  IF ~Has(seen_measurements, key)
               THEN Becomes(t, StateAt([t EXCEPT !.warned =
                                           IF settled_countdown = 0 THEN @ \cup {key} ELSE @,
                                                 !.missing = @ \cup {key}],
                                       t.i + 1))
               ELSE LET u == [t EXCEPT !.looked_up = @ \cup {key},
                                       !.partial = IF Incomplete(key, config)
                                                   THEN @ \cup {key} ELSE @]
                    IN  IF IsRaised(converted)
                        THEN Becomes(t, [u EXCEPT !.exc = converted[2], !.pc = "done"])
                        ELSE Becomes(t, [u EXCEPT !.out = Append(@, <<StateTopic(key), converted>>),
                                                  !.pc = "derived"])
        /\ UNCHANGED <<sensor_overlay, table_writes, seen_measurements, device_description,
                       settled_countdown, queue, env, ghost, rkey, rres>>

\* DerivedScan publishing the source's value as it is, the conversion not applied
RECURSIVE DerivedScanRaw(_, _, _, _)
DerivedScanRaw(snapshot, n, source_key, source_value) ==
    IF n = 0 THEN [out |-> <<>>, unconverted |-> {}, exc |-> ""]
    ELSE LET before == DerivedScanRaw(snapshot, n - 1, source_key, source_value)
             sensor_name == snapshot[n][1]
             sensor_config == snapshot[n][2]
         IN  IF ~("source" \in DOMAIN sensor_config /\ sensor_config["source"] = source_key)
             THEN before
             ELSE IF "convert_lambda" \notin DOMAIN sensor_config
             THEN [before EXCEPT !.unconverted = @ \cup {sensor_name}]
             ELSE [before EXCEPT !.out = Append(@, <<StateTopic(sensor_name), source_value>>)]

\* DerivedScan publishing the source's value as it is for a derived sensor
\* that has no conversion
RECURSIVE DerivedScanUnconverted(_, _, _, _)
DerivedScanUnconverted(snapshot, n, source_key, source_value) ==
    IF n = 0 THEN [out |-> <<>>, unconverted |-> {}, exc |-> ""]
    ELSE LET before == DerivedScanUnconverted(snapshot, n - 1, source_key, source_value)
             sensor_name == snapshot[n][1]
             sensor_config == snapshot[n][2]
             derived_value == IF "convert_lambda" \in DOMAIN sensor_config
                              THEN Convert(sensor_config["convert_lambda"], source_value)
                              ELSE source_value
         IN  IF before.exc # "" THEN before
             ELSE IF ~("source" \in DOMAIN sensor_config /\ sensor_config["source"] = source_key)
             THEN before
             ELSE IF IsRaised(derived_value)
             THEN [before EXCEPT !.exc = derived_value[2]]
             ELSE [before EXCEPT !.out = Append(@, <<StateTopic(sensor_name), derived_value>>)]

\* _publish_derived_sensors over the first n items of the snapshot: what is
\* published, which derived sensors have no conversion, and the exception that
\* ended the loop, if one did
RECURSIVE DerivedScan(_, _, _, _)
DerivedScan(snapshot, n, source_key, source_value) ==
    IF n = 0 THEN [out |-> <<>>, unconverted |-> {}, exc |-> ""]
    ELSE LET before == DerivedScan(snapshot, n - 1, source_key, source_value)
             sensor_name == snapshot[n][1]
             sensor_config == snapshot[n][2]
             derived_value == Convert(sensor_config["convert_lambda"], source_value)
         IN  IF before.exc # "" THEN before
             ELSE IF ~("source" \in DOMAIN sensor_config /\ sensor_config["source"] = source_key)
             THEN before
             ELSE IF "convert_lambda" \notin DOMAIN sensor_config
             THEN [before EXCEPT !.unconverted = @ \cup {sensor_name}]
             ELSE IF IsRaised(derived_value)
             THEN [before EXCEPT !.exc = derived_value[2]]
             ELSE [before EXCEPT !.out = Append(@, <<StateTopic(sensor_name), derived_value>>)]

\* _publish_derived_sensors(key, original_value), its first step:
\* list(seen_measurements.items()) copies the items of the registry as they
\* are now.  The copy is shallow and the registry only appends, so the copy is
\* the first j items of the registry, each item the registry's own record.
StateSnapshot ==
    \E t \in running :
        /\ t.kind = "state" /\ t.pc = "derived"
        /\ Becomes(t, [t EXCEPT !.j = Len(seen_measurements), !.pc = "scan"])
        /\ UNCHANGED <<sensor_overlay, table_writes, seen_measurements, device_description,
                       settled_countdown, queue, env, ghost, rkey, rres>>

\* StateDerived iterating the registry itself, as `for ... in
\* seen_measurements.items()` would: every item there is now is evaluated, and
\* the iteration raises RuntimeError when the registry has grown meanwhile
StateDerivedLive ==
    \E t \in running :
        /\ t.kind = "state" /\ t.pc = "scan"
        /\ LET scan == DerivedScan(seen_measurements, Len(seen_measurements),
                                   t.packet[t.i][1], t.packet[t.i][2])
               u == [t EXCEPT !.out = @ \o scan.out,
                              !.unconverted = @ \cup scan.unconverted,
                              !.j = 1]
           IN  IF Len(seen_measurements) # t.j
               THEN Becomes(t, [u EXCEPT !.exc = "RuntimeError", !.pc = "done"])
               ELSE Becomes(t, StateAt(u, t.i + 1))
        /\ UNCHANGED <<sensor_overlay, table_writes, seen_measurements, device_description,
                       settled_countdown, queue, env, ghost, rkey, rres>>

\* _publish_derived_sensors(key, original_value), the loop over the copy
StateDerived ==
    \E t \in running :
        /\ t.kind = "state" /\ t.pc = "scan"
        /\ LET scan == DerivedScan(seen_measurements, t.j,
                                   t.packet[t.i][1], t.packet[t.i][2])
               u == [t EXCEPT !.out = @ \o scan.out,
                              !.unconverted = @ \cup scan.unconverted,
                              !.j = 1]
           IN  IF scan.exc # ""
               THEN Becomes(t, [u EXCEPT !.exc = scan.exc, !.pc = "done"])
               ELSE Becomes(t, StateAt(u, t.i + 1))
        /\ UNCHANGED <<sensor_overlay, table_writes, seen_measurements, device_description,
                       settled_countdown, queue, env, ghost, rkey, rres>>

(***************************************************************************)
(* ConfigPublisher.process_packet                                          *)
(***************************************************************************)
\* NextDerived when no item of KEY_CONFIG is taken for a derived sensor
NextDerivedNone(j, source_key) == Len(KEY_CONFIG) + 1

\* the index of the first item of KEY_CONFIG at or after j whose source is
\* source_key, Len(KEY_CONFIG) + 1 if there is none
NextDerived(j, source_key) ==
    LET derived == {n \in j..Len(KEY_CONFIG) :
                       /\ "source" \in DOMAIN KEY_CONFIG[n][2]
                       /\ KEY_CONFIG[n][2]["source"] = source_key}
    IN  IF derived = {} THEN Len(KEY_CONFIG) + 1
        ELSE CHOOSE n \in derived : \A m \in derived : n <= m

\* the loop of _discover_derived_sensors moves on to the item at or after j, and
\* the loop of process_packet to the next key when there is none
ConfigAt(t, j) ==
    LET n == NextDerived(j, t.packet[t.i][1])
    IN  IF n > Len(KEY_CONFIG)
        THEN [t EXCEPT !.i = @ + 1, !.j = 1,
                       !.pc = IF t.i + 1 > Len(t.packet) THEN "done" ELSE "key"]
        ELSE [t EXCEPT !.j = n, !.pc = "cascade"]

\* if key not in self.seen_measurements:
ConfigKey ==
    \E t \in running :
        /\ t.kind = "config" /\ t.pc = "key"
        /\ LET key == t.packet[t.i][1]
           IN  IF Has(seen_measurements, key)
               THEN Becomes(t, [t EXCEPT !.i = @ + 1,
                                         !.pc = IF t.i + 1 > Len(t.packet) THEN "done" ELSE "key"])
               ELSE Becomes(t, [t EXCEPT !.found = TRUE,
                                         !.missing = @ \cup {key},
                                         !.pc = "create"])
        /\ UNCHANGED <<sensor_overlay, table_writes, seen_measurements, device_description,
                       settled_countdown, queue, env, ghost, rkey, rres>>

\* self.seen_measurements[key], on a defaultdict(dict): a missing key is inserted
\* with an empty dict
ConfigCreate ==
    \E t \in running :
        /\ t.kind = "config" /\ t.pc = "create"
        /\ LET key == t.packet[t.i][1]
           IN  IF Has(seen_measurements, key)
               THEN /\ Registry(seen_measurements)
                    /\ Becomes(t, [t EXCEPT !.pc = "fill"])
               ELSE /\ Registry(Append(seen_measurements, <<key, EmptyDict>>))
                    /\ Becomes(t, [t EXCEPT !.pc = "fill", !.inserted = @ \cup {key}])
        /\ UNCHANGED <<sensor_overlay, table_writes, device_description,
                       settled_countdown, queue, env, rkey, rres>>

\* ... |= get_key_config(key)
ConfigFill ==
    \E t \in running :
        /\ t.kind = "config" /\ t.pc = "fill"
        /\ LET key == t.packet[t.i][1]
               config == get_key_config(key)
           IN  IF IsFailed(config)
               THEN /\ Registry(seen_measurements)
                    /\ Becomes(t, [t EXCEPT !.exc = config.exception, !.pc = "done"])
               ELSE /\ Registry(Put(seen_measurements, key,
                                    Union(Get(seen_measurements, key), config)))
                    /\ Becomes(t, [t EXCEPT !.pc = "merge"])
        /\ UNCHANGED <<sensor_overlay, table_writes, device_description,
                       settled_countdown, queue, env, rkey, rres>>

\* ConfigMerge with the operands of | exchanged: the unit metadata is laid over
\* the metadata of the key
ConfigMergeUnitOver ==
    \E t \in running :
        /\ t.kind = "config" /\ t.pc = "merge"
        /\ LET key == t.packet[t.i][1]
               entry == Get(seen_measurements, key)
               metadata == Union(GetOr(entry, "metadata", EmptyDict),
                                 get_unit_metadata(key, unit_system))
           IN  /\ Registry(Put(seen_measurements, key, Union(entry, [metadata |-> metadata])))
               /\ Becomes(t, ConfigAt(t, 1))
        /\ UNCHANGED <<sensor_overlay, table_writes, device_description,
                       settled_countdown, queue, env, rkey, rres>>

\* self.seen_measurements[key]["metadata"] = get_unit_metadata(...) | ....get("metadata", {})
ConfigMerge ==
    \E t \in running :
        /\ t.kind = "config" /\ t.pc = "merge"
        /\ LET key == t.packet[t.i][1]
               entry == Get(seen_measurements, key)
               metadata == Union(get_unit_metadata(key, unit_system),
                                 GetOr(entry, "metadata", EmptyDict))
           IN  /\ Registry(Put(seen_measurements, key, Union(entry, [metadata |-> metadata])))
               /\ Becomes(t, ConfigAt(t, 1))
        /\ UNCHANGED <<sensor_overlay, table_writes, device_description,
                       settled_countdown, queue, env, rkey, rres>>

\* _discover_derived_sensors, one item of KEY_CONFIG whose source is the key:
\* ... and sensor_name not in self.seen_measurements
ConfigCascade ==
    \E t \in running :
        /\ t.kind = "config" /\ t.pc = "cascade"
        /\ IF Has(seen_measurements, KEY_CONFIG[t.j][1])
           THEN Becomes(t, ConfigAt(t, t.j + 1))
           ELSE Becomes(t, [t EXCEPT !.pc = "cascade_assign"])
        /\ UNCHANGED <<sensor_overlay, table_writes, seen_measurements, device_description,
                       settled_countdown, queue, env, ghost, rkey, rres>>

\* self.seen_measurements[sensor_name] = get_key_config(sensor_name).copy()
ConfigCascadeAssign ==
    \E t \in running :
        /\ t.kind = "config" /\ t.pc = "cascade_assign"
        /\ LET sensor_name == KEY_CONFIG[t.j][1]
               config == get_key_config(sensor_name)
           IN  /\ Registry(Put(seen_measurements, sensor_name, config))
               /\ Becomes(t, [t EXCEPT !.pc = "cascade_unit",
                                       !.inserted = IF Has(seen_measurements, sensor_name)
                                                    THEN @ ELSE @ \cup {sensor_name}])
        /\ UNCHANGED <<sensor_overlay, table_writes, device_description,
                       settled_countdown, queue, env, rkey, rres>>

\* ....setdefault("metadata", {})["unit_of_measurement"] = None : the copy made
\* above is shallow, so a metadata dict the entry already has is the table's own
ConfigCascadeUnit ==
    \E t \in running :
        /\ t.kind = "config" /\ t.pc = "cascade_unit"
        /\ LET sensor_name == KEY_CONFIG[t.j][1]
               entry == Get(seen_measurements, sensor_name)
               unit == [unit_of_measurement |-> None]
           IN  IF "unit_of_measurement" \in DOMAIN GetOr(entry, "metadata", EmptyDict)
               THEN /\ Registry(seen_measurements)
                    /\ UNCHANGED table_writes
               ELSE /\ Registry(Put(seen_measurements, sensor_name,
                                    Union(entry, [metadata |->
                                        Union(GetOr(entry, "metadata", EmptyDict), unit)])))
                    /\ table_writes' =
                           IF "metadata" \in DOMAIN entry
                           THEN Union(table_writes,
                                      (sensor_name :> Union(GetOr(table_writes, sensor_name, EmptyDict), unit)))
                           ELSE table_writes
        /\ Becomes(t, ConfigAt(t, t.j + 1))
        /\ UNCHANGED <<sensor_overlay, device_description,
                       settled_countdown, queue, env, rkey, rres>>

(***************************************************************************)
(* ConfigPublisher.publish_discovery                                       *)
(***************************************************************************)
\* DiscoveryDocument with the entry's metadata laid over the device description
DiscoveryDocumentMetadataLast(sensor_name, config) ==
    LET integration == GetOr(config, "integration", Str("sensor"))
        payload == Union(Union([availability_topic |-> Str(availability_topic),
                                state_topic |-> <<"topic", StateTopic(sensor_name)>>,
                                unique_id |-> <<"id", node_id, "_", sensor_name>>],
                               device_description),
                         GetOr(config, "metadata", EmptyDict))
    IN  <<DiscoveryTopic(integration[2], sensor_name),
          [k \in {a \in DOMAIN payload : payload[a] # None} |-> payload[k]]>>

\* the payload and the topic published for one registry entry
DiscoveryDocument(sensor_name, config) ==
    LET integration == GetOr(config, "integration", Str("sensor"))
        payload == Union(Union([availability_topic |-> Str(availability_topic),
                                state_topic |-> <<"topic", StateTopic(sensor_name)>>,
                                unique_id |-> <<"id", node_id, "_", sensor_name>>],
                               GetOr(config, "metadata", EmptyDict)),
                         device_description)
    IN  <<DiscoveryTopic(integration[2], sensor_name),
          [k \in {a \in DOMAIN payload : payload[a] # None} |-> payload[k]]>>

\* for sensor_name, config in self.seen_measurements.items(): the iterator is made
DiscoveryIter ==
    \E t \in running :
        /\ t.kind = "discovery" /\ t.pc = "iter"
        /\ Becomes(t, [t EXCEPT !.tmp = Len(seen_measurements), !.pc = "next"])
        /\ UNCHANGED <<sensor_overlay, table_writes, seen_measurements, device_description,
                       settled_countdown, queue, env, ghost, rkey, rres>>

\* DiscoveryNext publishing an entry once only: it marks the entries it has
\* published in the registry and skips the marked ones
DiscoveryNextOnce ==
    \E t \in running :
        /\ t.kind = "discovery" /\ t.pc = "next"
        /\ IF Len(seen_measurements) # t.tmp
           THEN /\ Becomes(t, [t EXCEPT !.exc = "RuntimeError", !.pc = "done"])
                /\ UNCHANGED seen_measurements
           ELSE IF t.i > t.tmp
           THEN /\ Becomes(t, [t EXCEPT !.pc = "done"])
                /\ UNCHANGED seen_measurements
           ELSE IF "published" \in DOMAIN seen_measurements[t.i][2]
           THEN /\ Becomes(t, [t EXCEPT !.i = @ + 1])
                /\ UNCHANGED seen_measurements
           ELSE /\ Becomes(t, [t EXCEPT
                       !.out = Append(@, DiscoveryDocument(seen_measurements[t.i][1],
                                                           seen_measurements[t.i][2])),
                       !.i = @ + 1])
                /\ seen_measurements' =
                       Put(seen_measurements, seen_measurements[t.i][1],
                           Union(seen_measurements[t.i][2], [published |-> Bool(TRUE)]))
        /\ ghost' = IF /\ Len(seen_measurements) = t.tmp /\ t.i <= t.tmp
                       /\ "published" \notin DOMAIN seen_measurements[t.i][2]
                    THEN [ghost EXCEPT !.documented = @ \cup {seen_measurements[t.i][1]}]
                    ELSE ghost
        /\ UNCHANGED <<sensor_overlay, table_writes, device_description,
                       settled_countdown, queue, env, rkey, rres>>

\* the iterator's next item and the loop body; a dict whose size changed since
\* the iterator was made raises RuntimeError
DiscoveryNext ==
    \E t \in running :
        /\ t.kind = "discovery" /\ t.pc = "next"
        /\ IF Len(seen_measurements) # t.tmp
           THEN Becomes(t, [t EXCEPT !.exc = "RuntimeError", !.pc = "done"])
           ELSE IF t.i > t.tmp
           THEN Becomes(t, [t EXCEPT !.pc = "done"])
           ELSE Becomes(t, [t EXCEPT
                    !.out = Append(@, DiscoveryDocument(seen_measurements[t.i][1],
                                                        seen_measurements[t.i][2])),
                    !.partial = IF Incomplete(seen_measurements[t.i][1], seen_measurements[t.i][2])
                                THEN @ \cup {seen_measurements[t.i][1]} ELSE @,
                    !.i = @ + 1])
        /\ ghost' = IF Len(seen_measurements) = t.tmp /\ t.i <= t.tmp
                    THEN [ghost EXCEPT !.documented = @ \cup {seen_measurements[t.i][1]}]
                    ELSE ghost
        /\ UNCHANGED <<sensor_overlay, table_writes, seen_measurements, device_description,
                       settled_countdown, queue, env, rkey, rres>>

(***************************************************************************)
(* The system.                                                             *)
(***************************************************************************)
Init ==
    /\ InitSystem
    /\ rkey = <<>>
    /\ rres = <<>>

Next ==
    \/ \E packet \in Packets : on_weewx_loop(packet)
    \/ on_mqtt_message(Birth)
    \/ WorkerStart
    \/ WorkerFinish
    \/ PreprocessRun
    \/ StateCheck
    \/ StateLoad
    \/ StateStore
    \/ StateLookup
    \/ StateSnapshot
    \/ StateDerived
    \/ ConfigKey
    \/ ConfigCreate
    \/ ConfigFill
    \/ ConfigMerge
    \/ ConfigCascade
    \/ ConfigCascadeAssign
    \/ ConfigCascadeUnit
    \/ DiscoveryIter
    \/ DiscoveryNext

Spec == Init /\ [][Next]_vars

\* the system when the host's packets are further apart than the time the pool
\* takes to process one
NextPaced ==
    \/ \E packet \in Packets : on_weewx_loop_paced(packet)
    \/ \E msg \in Messages : on_mqtt_message(msg)
    \/ WorkerStart
    \/ WorkerFinish
    \/ PreprocessRun
    \/ StateCheck
    \/ StateLoad
    \/ StateStore
    \/ StateLookup
    \/ StateSnapshot
    \/ StateDerived
    \/ ConfigKey
    \/ ConfigCreate
    \/ ConfigFill
    \/ ConfigMerge
    \/ ConfigCascade
    \/ ConfigCascadeAssign
    \/ ConfigCascadeUnit
    \/ DiscoveryIter
    \/ DiscoveryNext

SpecPaced == Init /\ [][NextPaced]_vars

(***************************************************************************)
(* The system with a sensor table whose entries set attributes that the    *)
(* unit metadata sets too.                                                 *)
(***************************************************************************)
\* Three sensor definitions of the configuration: extraTemp1 as an enum sensor,
\* with unit_of_measurement set to null, a unique_id and a device of its own,
\* ET as a number entity with a value_template of its own, and compass, a
\* second sensor derived from windDir, which names no conversion.
SENSOR_OVERRIDES == <<
    <<extraTemp \o <<"1">>,
      [metadata |-> [device |-> Str("shed"),
                     device_class |-> Str("enum"),
                     name |-> Text(<<"F", "r", "o", "s", "t">>),
                     unique_id |-> Str("frost"),
                     unit_of_measurement |-> None]]>>,
    <<ET,
      [integration |-> Str("number"),
       metadata |-> [name |-> Text(<<"E", "T">>),
                     value_template |-> Str("{{ value | round(1) }}")]]>>,
    <<compass,
      [source |-> windDir,
       metadata |-> [icon |-> Str("mdi:compass"),
                     name |-> Text(<<"C", "o", "m", "p", "a", "s", "s">>)]]>>
    >>

\* loop packets with these measurements
MergePackets == {
    << <<usUnits, Num(1)>>, <<extraTemp \o <<"1">>, Num(2)>> >>,
    << <<usUnits, Num(1)>>, <<ET, Num(3)>> >>,
    << <<usUnits, Num(1)>>, <<windDir, Num(45)>> >>
    }

InitMerge ==
    /\ sensor_overlay = SENSOR_OVERRIDES
    /\ table_writes = EmptyDict
    /\ seen_measurements = <<>>
    /\ device_description =
           [device |-> Dict([identifiers |-> List(<<"weewx">>),
                             name |-> Str("Station"),
                             model |-> Str("Vantage"),
                             manufacturer |-> Str("Davis")])]
    /\ settled_countdown = SETTLE_COUNTDOWN_START
    /\ queue = <<>>
    /\ running = {}
    /\ env = InitEnv
    /\ ghost = InitGhost
    /\ rkey = <<>>
    /\ rres = <<>>

NextMerge ==
    \/ \E packet \in MergePackets : on_weewx_loop(packet)
    \/ WorkerStart
    \/ WorkerFinish
    \/ PreprocessRun
    \/ StateCheck
    \/ StateLoad
    \/ StateStore
    \/ StateLookup
    \/ StateSnapshot
    \/ StateDerived
    \/ ConfigKey
    \/ ConfigCreate
    \/ ConfigFill
    \/ ConfigMerge
    \/ ConfigCascade
    \/ ConfigCascadeAssign
    \/ ConfigCascadeUnit
    \/ DiscoveryIter
    \/ DiscoveryNext

SpecMerge == InitMerge /\ [][NextMerge]_vars

(***************************************************************************)
(* The life cycle of the service: the broker connection comes and goes,    *)
(* archive records arrive, and the host calls shutDown.                    *)
(***************************************************************************)
\* the client's network thread has received CONNACK: is_connected() is true
on_mqtt_connect ==
    /\ ~env.connected /\ env.phase # "down"
    /\ env' = [env EXCEPT !.connected = TRUE]
    /\ UNCHANGED <<sensor_overlay, table_writes, seen_measurements, device_description,
                   settled_countdown, queue, running, ghost, rkey, rres>>

\* the connection to the broker is lost
on_mqtt_disconnect ==
    /\ env.connected /\ env.phase # "down"
    /\ env' = [env EXCEPT !.connected = FALSE]
    /\ UNCHANGED <<sensor_overlay, table_writes, seen_measurements, device_description,
                   settled_countdown, queue, running, ghost, rkey, rres>>

\* PacketPreprocessor.process_packet ends with an exception
PreprocessRaise ==
    \E t \in running :
        /\ t.kind = "preprocess" /\ t.pc = "run"
        /\ Becomes(t, [t EXCEPT !.exc = "Exception", !.pc = "done"])
        /\ UNCHANGED <<sensor_overlay, table_writes, seen_measurements, device_description,
                       settled_countdown, queue, env, ghost, rkey, rres>>

\* shutDown up to executor.shutdown(wait=True): the executor takes no new task
shutDown ==
    /\ env.phase = "up"
    /\ env' = [env EXCEPT !.phase = "stopping"]
    /\ UNCHANGED <<sensor_overlay, table_writes, seen_measurements, device_description,
                   settled_countdown, queue, running, ghost, rkey, rres>>

\* shutDown when mqtt_client.disconnect() does not wait for the pool
shutDown_nowait ==
    /\ env.phase = "stopping"
    /\ env' = [env EXCEPT !.phase = "down", !.connected = FALSE]
    /\ UNCHANGED <<sensor_overlay, table_writes, seen_measurements, device_description,
                   settled_countdown, queue, running, ghost, rkey, rres>>

\* executor.shutdown(wait=True) returns, the workers having emptied the queue
\* and ended, and shutDown calls mqtt_client.disconnect()
shutDown_return ==
    /\ env.phase = "stopping"
    /\ queue = <<>> /\ running = {}
    /\ env' = [env EXCEPT !.phase = "down", !.connected = FALSE]
    /\ UNCHANGED <<sensor_overlay, table_writes, seen_measurements, device_description,
                   settled_countdown, queue, running, ghost, rkey, rres>>

\* the archive records of the life cycle: those of one observation
Records == {packet \in Packets : Len(packet) = 2 /\ packet[2][1] = windDir}

\* the service after construction, with no sensor override configured
InitService(connected) ==
    /\ sensor_overlay = <<>>
    /\ table_writes = EmptyDict
    /\ seen_measurements = <<>>
    /\ device_description =
           [device |-> Dict([identifiers |-> List(<<"weewx">>),
                             name |-> Str("Station"),
                             model |-> Str("Vantage"),
                             manufacturer |-> Str("Davis")])]
    /\ settled_countdown = SETTLE_COUNTDOWN_START
    /\ queue = <<>>
    /\ running = {}
    /\ env = [InitEnv EXCEPT !.connected = connected]
    /\ ghost = InitGhost
    /\ rkey = <<>>
    /\ rres = <<>>

\* after construction: client.connect() has been called, CONNACK is yet to come
InitLife == InitService(FALSE)

NextLife ==
    \/ \E record \in Records : on_weewx_archive(record)
    \/ on_mqtt_message(Birth)
    \/ on_mqtt_connect
    \/ on_mqtt_disconnect
    \/ shutDown
    \/ shutDown_return
    \/ WorkerStart
    \/ WorkerFinish
    \/ PreprocessRun
    \/ PreprocessRaise
    \/ StateCheck
    \/ StateLoad
    \/ StateStore
    \/ StateLookup
    \/ StateSnapshot
    \/ StateDerived
    \/ ConfigKey
    \/ ConfigCreate
    \/ ConfigFill
    \/ ConfigMerge
    \/ ConfigCascade
    \/ ConfigCascadeAssign
    \/ ConfigCascadeUnit
    \/ DiscoveryIter
    \/ DiscoveryNext

SpecLife == InitLife /\ [][NextLife]_vars

\* the steps of the pool's worker threads
Workers ==
    \/ WorkerStart
    \/ WorkerFinish
    \/ PreprocessRun
    \/ PreprocessRaise
    \/ StateCheck
    \/ StateLoad
    \/ StateStore
    \/ StateLookup
    \/ StateSnapshot
    \/ StateDerived
    \/ ConfigKey
    \/ ConfigCreate
    \/ ConfigFill
    \/ ConfigMerge
    \/ ConfigCascade
    \/ ConfigCascadeAssign
    \/ ConfigCascadeUnit
    \/ DiscoveryIter
    \/ DiscoveryNext

\* the pool at work on the records and birth messages of a service that stays
\* connected, its worker threads being scheduled: a worker that can take a step
\* eventually takes one
NextPool ==
    \/ \E record \in Records : on_weewx_archive(record)
    \/ on_mqtt_message(Birth)
    \/ Workers

SpecPool == InitService(TRUE) /\ [][NextPool]_vars /\ WF_vars(Workers)

(***************************************************************************)
(* Packets that carry a derived sensor's key as a key of their own, beside *)
(* the key it is derived from.                                             *)
(***************************************************************************)
\* windDirCardinal as a number beside windDir; windDirCardinal as text, before
\* windDir; and windDirCardinal1, which get_key_config resolves to a copy of
\* windDirCardinal's entry, its source included
LiteralPackets == {
    << <<usUnits, Num(1)>>, <<windDir, Num(45)>>, <<windDirCardinal, Num(180)>> >>,
    << <<usUnits, Num(1)>>, <<windDirCardinal, Str("NE")>>, <<windDir, Num(45)>> >>,
    << <<usUnits, Num(1)>>, <<windDir, Num(45)>>, <<windDirCardinal \o <<"1">>, Num(180)>> >>
    }

NextLiteral ==
    \/ \E packet \in LiteralPackets : on_weewx_loop(packet)
    \/ WorkerStart
    \/ WorkerFinish
    \/ PreprocessRun
    \/ StateCheck
    \/ StateLoad
    \/ StateStore
    \/ StateLookup
    \/ StateSnapshot
    \/ StateDerived
    \/ ConfigKey
    \/ ConfigCreate
    \/ ConfigFill
    \/ ConfigMerge
    \/ ConfigCascade
    \/ ConfigCascadeAssign
    \/ ConfigCascadeUnit
    \/ DiscoveryIter
    \/ DiscoveryNext

SpecLiteral == InitService(TRUE) /\ [][NextLiteral]_vars

(***************************************************************************)
(* Properties of the publishers (checked under Spec and SpecPaced).        *)
(***************************************************************************)
\* the messages the call t has published
Published(t) == {t.out[n] : n \in DOMAIN t.out}

StateCalls == {t \in running : t.kind = "state"}
ConfigCalls == {t \in running : t.kind = "config"}
DiscoveryCalls == {t \in running : t.kind = "discovery"}

\* the call t has returned, and returned normally
Returned(t) == t.pc = "done" /\ t.exc = ""

\* C1 as claimed: StatePublisher.process_packet emits no missing-configuration
\* warning during its first 5 invocations, and from the 6th invocation onward
\* emits one for every non-null packet key that is not in the registry.
C1_WarnFromSixthCall ==
    \A t \in StateCalls :
        /\ t.call \in 1..5 => t.warned = {}
        /\ t.call >= 6 => t.warned = t.missing

\* what the code does when the calls do not overlap: the countdown is decremented
\* before the packet is looked at, so the 5th call is the first that warns
FifthCallWarns ==
    \A t \in StateCalls :
        /\ t.call \in 1..4 => t.warned = {}
        /\ t.call >= 5 => t.warned = t.missing

\* C2 as claimed: no state-publication or discovery-publication call reads a
\* registry entry that is empty or lacks its metadata or the unit's part of it:
\* insertion is atomic with respect to concurrent readers.
C2_NoPartialEntryRead ==
    \A t \in StateCalls \cup DiscoveryCalls : t.partial = {}

C4_CascadeOneLevel ==
    \A t \in ConfigCalls :
        Returned(t) =>
            /\ \A key \in t.missing :
                   /\ Has(seen_measurements, key)
                   /\ \A n \in DOMAIN KEY_CONFIG :
                          ("source" \in DOMAIN KEY_CONFIG[n][2] /\ KEY_CONFIG[n][2]["source"] = key)
                              => Has(seen_measurements, KEY_CONFIG[n][1])
            /\ (windDir \in t.missing /\ ~Has(t.packet, windDirCardinal))
                   => Has(seen_measurements, windDir) /\ Has(seen_measurements, windDirCardinal)

\* a call on the packet {usUnits, windDir: 45}, made on an empty registry, has
\* returned having inserted its keys and windDirCardinal
C4_Witness ==
    \E t \in ConfigCalls :
        /\ Returned(t)
        /\ Keys(t.packet) = {usUnits, windDir}
        /\ t.inserted = {usUnits, windDir, windDirCardinal}
        /\ Keys(seen_measurements) = {usUnits, windDir, windDirCardinal}

NullKeys(t) == {t.packet[n][1] : n \in {m \in DOMAIN t.packet : t.packet[m][2] = None}}

\* C6 as claimed: for a packet entry whose value is null,
\* StatePublisher.process_packet publishes no state message on that key's topic
\* and emits no missing-configuration warning for it.
C6_NullNeverOnTopic ==
    \A t \in StateCalls :
        \A key \in NullKeys(t) :
            /\ key \notin t.warned
            /\ \A m \in Published(t) : m[1] # StateTopic(key)

\* C6 as amended: for a packet entry whose value is null,
\* StatePublisher.process_packet emits no missing-configuration warning, and
\* the only message it publishes on that key's topic is the one derived from
\* the key's source, when the key is a registered derived sensor whose source has
\* a non-null value in the same packet.
C6_NullOnlyDerived ==
    \A t \in StateCalls :
        \A key \in NullKeys(t) :
            /\ key \notin t.warned
            /\ \A m \in Published(t) :
                   m[1] = StateTopic(key) =>
                       /\ Has(seen_measurements, key)
                       /\ "source" \in DOMAIN Get(seen_measurements, key)
                       /\ "convert_lambda" \in DOMAIN Get(seen_measurements, key)
                       /\ Has(t.packet, Get(seen_measurements, key)["source"])
                       /\ Get(t.packet, Get(seen_measurements, key)["source"]) # None
                       /\ m[2] = Convert(Get(seen_measurements, key)["convert_lambda"],
                                         Get(t.packet, Get(seen_measurements, key)["source"]))

\* with the countdown at 0, a call on the packet {usUnits, windDir: null} has
\* returned while windDir is registered, having published usUnits only and
\* logged nothing
C6_Witness ==
    \E t \in StateCalls :
        /\ Returned(t)
        /\ t.packet[2] = <<windDir, None>>
        /\ Has(seen_measurements, windDir)
        /\ settled_countdown = 0
        /\ t.out = << <<StateTopic(usUnits), Str("METRICWX")>> >>
        /\ t.warned = {}

\* the documents of the registry as it is now, in its order
DiscoveryDocuments ==
    [n \in 1..Len(seen_measurements) |->
        DiscoveryDocument(seen_measurements[n][1], seen_measurements[n][2])]

\* C9: a publish_discovery call during which the registry did not change has
\* published exactly the documents of the registry, in its order, so two such
\* calls with no registry change in between publish the same sequence; and no
\* step of publish_discovery changes the registry, the device description, the
\* sensor table or the settle countdown.
C9_DiscoveryIdempotent ==
    /\ [](\A t \in DiscoveryCalls :
              (Returned(t) /\ t.worker \notin ghost.dirty) => t.out = DiscoveryDocuments)
    /\ [][(DiscoveryIter \/ DiscoveryNext) =>
              UNCHANGED <<seen_measurements, device_description, table_writes,
                          settled_countdown>>]_vars

\* a publish_discovery call has returned with the documents of a registry of two
\* entries or more, after another one that completed on the same registry
C9_Witness ==
    \E t \in DiscoveryCalls :
        /\ Returned(t)
        /\ t.worker \notin ghost.dirty
        /\ ghost.clean >= 1
        /\ Len(t.out) >= 2
        /\ t.out = DiscoveryDocuments

\* C10 as claimed: ConfigPublisher.process_packet returns true if and only if
\* the call inserted at least one key into the registry.
C10_TrueIffInserted ==
    \A t \in ConfigCalls :
        Returned(t) => (t.found <=> t.inserted # {})

\* C11: the registry grows monotonically: each key is bound at most once, and
\* every step leaves the keys already registered registered, at the place in the
\* insertion order they had.
C11_RegistryMonotone ==
    /\ [](\A m, n \in DOMAIN seen_measurements :
              seen_measurements[m][1] = seen_measurements[n][1] => m = n)
    /\ [][/\ Len(seen_measurements') >= Len(seen_measurements)
           /\ \A n \in DOMAIN seen_measurements :
                  seen_measurements'[n][1] = seen_measurements[n][1]]_vars

\* two packets have arrived; a registry update on a packet whose keys were all
\* registered has returned, having inserted nothing, on a registry of three keys
\* or more
C11_Witness ==
    /\ env.packets = 2
    /\ Len(seen_measurements) >= 3
    /\ \E t \in ConfigCalls : Returned(t) /\ ~t.found /\ t.inserted = {}

\* C21: the settle countdown is always in 0..SETTLE_COUNTDOWN_START, no step
\* increases it, and it is SETTLE_COUNTDOWN_START less one for every
\* process_packet call that has got past its decrement, floored at zero - also
\* while two state publications run at once.
C21_CountdownExact ==
    /\ [](settled_countdown \in 0..SETTLE_COUNTDOWN_START)
    /\ [][settled_countdown' <= settled_countdown]_vars
    /\ [](LET decrementing == {t \in StateCalls : t.pc \in {"load", "store"}}
               decided == ghost.state_calls - Cardinality(decrementing)
           IN  settled_countdown =
                   IF decided >= SETTLE_COUNTDOWN_START THEN 0
                   ELSE SETTLE_COUNTDOWN_START - decided)

(***************************************************************************)
(* Properties of the life cycle (checked under SpecLife).                  *)
(***************************************************************************)
\* C12: a task that ended with an exception leaves the pool like any other: its
\* callback submits nothing, the handlers' state is untouched, its worker is free
\* again, and the pool goes on to execute every task submitted before and after.
C12_ExceptionContained ==
    /\ [][\A t \in running :
              (t.exc # "" /\ t \notin running')
                  => /\ running' = running \ {t}
                     /\ UNCHANGED <<queue, env>>]_vars
    /\ (\E t \in running : t.exc # "") ~> (InFlight = 0)

\* two records have arrived and been registered, and a publish-all has ended
\* with RuntimeError while the publish-all submitted after it waits in the queue
C12_Witness ==
    /\ env.packets = 2
    /\ Len(seen_measurements) > 0
    /\ \E t \in running : t.kind = "discovery" /\ t.exc = "RuntimeError"
    /\ \E n \in DOMAIN queue : queue[n].kind = "discovery"

\* the tasks, queued or running, that work on a packet
PacketTasks ==
    Cardinality({n \in DOMAIN queue : queue[n].kind # "discovery"})
        + Cardinality({t \in running : t.kind # "discovery"})

\* C13: a packet or record that arrives while the MQTT client is not connected
\* submits no task, and none is ever submitted for it later: the tasks that work
\* on packets never outnumber what the packets that arrived connected can have
\* (a preprocess task, or a state and a registry task, each).
C13_DroppedNotQueued ==
    /\ [](PacketTasks <= 2 * (env.packets - env.dropped))
    /\ [][(env.packets' # env.packets /\ ~env.connected)
              => (env.dropped' = env.dropped + 1 /\ UNCHANGED <<queue, running>>)]_vars

\* a record was dropped, another one was accepted and processed, and the pool
\* is idle again
C13_Witness ==
    /\ env.dropped = 1 /\ env.packets = 2
    /\ Len(seen_measurements) > 0
    /\ InFlight = 0

\* C14: once shutDown has disconnected the client no task is running or queued,
\* and none is started, ended or submitted afterwards.
C14_DisconnectAfterDrain ==
    /\ [](env.phase = "down" => (queue = <<>> /\ running = {}))
    /\ [][env.phase = "down" => UNCHANGED <<queue, running>>]_vars

\* shutDown was called with tasks in the pool, and has disconnected the client
\* after the last of them ended
C14_Witness ==
    /\ env.phase = "down"
    /\ Len(seen_measurements) > 0
    /\ ghost.lost # {}

\* C15: when shutDown has finished, no packet submitted before it was called has
\* lost the tasks that follow its preprocessing (state publication, registry
\* update, publish-all).
C15_InFlightDrained == env.phase = "down" => ghost.lost = {}

(***************************************************************************)
(* Properties of the conversions (SpecCardinal, SpecUnits).                *)
(***************************************************************************)
\* C17: degrees_to_cardinal(d) is the label at index floor((d + 11.25) / 22.5)
\* mod 16, for every d, negative ones and those of a turn or more included
\* (the index is then within 0..15); 0 is N, 11.25 is NNE, 359 is N.
C17_FloorIndex ==
    Len(rres) = 1 =>
        /\ rres[1] = CardinalDirections[(((rkey + 45) \div 90) % 16) + 1]
        /\ rkey = 0 => rres[1] = "N"
        /\ rkey = 45 => rres[1] = "NNE"
        /\ rkey = 4 * 359 => rres[1] = "N"

\* C18: every member u of UnitSystem satisfies from_int(int(u)) = u and
\* UnitSystem(str(u)) = u, the three integer codes are pairwise distinct, and
\* from_int of any other integer raises ValueError.
C18_UnitSystemRoundTrip ==
    /\ \A u \in DOMAIN UnitSystemInt :
           /\ from_int(UnitSystem_int(u)) = Str(u)
           /\ UnitSystem_call(UnitSystem_str(u)) = Str(u)
    /\ \A u, w \in DOMAIN UnitSystemInt :
           UnitSystem_int(u) = UnitSystem_int(w) => u = w
    /\ (Len(rres) = 1 /\ rkey.kind = "int") =>
           IF \E u \in DOMAIN UnitSystemInt : UnitSystem_int(u) = rkey.v
           THEN ~IsRaised(rres[1]) /\ UnitSystem_int(rres[1][2]) = rkey.v
           ELSE rres[1] = Raised("ValueError")
    /\ (Len(rres) = 1 /\ rkey.kind = "str") =>
           IF \E u \in DOMAIN UnitSystemInt : UnitSystem_str(u) = rkey.v
           THEN ~IsRaised(rres[1]) /\ UnitSystem_str(rres[1][2]) = rkey.v
           ELSE rres[1] = Raised("ValueError")

\* from_int has been given 2, which is the code of no member, and has raised
C18_Witness ==
    /\ Len(rres) = 1
    /\ rkey = [kind |-> "int", v |-> 2]
    /\ rres[1] = Raised("ValueError")

(***************************************************************************)
(* Properties of the loader (checked under SpecLoader).                    *)
(***************************************************************************)
\* the table has been loaded without the overrides (rres[1]) and with them (rres[2])
Loaded == Len(rres) = 2

\* the key of _config_overrides that belongs to the table being loaded
LoadedKind ==
    CASE rkey.base_filename = sensors_yaml -> <<"s", "e", "n", "s", "o", "r", "s">>
      [] rkey.base_filename = units_yaml -> <<"u", "n", "i", "t", "s">>
      [] rkey.base_filename = enums_yaml -> <<"e", "n", "u", "m", "s">>

\* the three layers of the table being loaded; a layer that is not there is empty
BaseLayer ==
    IF Has(rkey.files, rkey.base_filename) THEN Get(rkey.files, rkey.base_filename)
    ELSE EmptyDict
LocaleLayer ==
    IF rkey.lang = cs /\ Len(rkey.files) = 2 THEN rkey.files[2][2] ELSE EmptyDict
ConfigLayer ==
    IF rkey.config_overrides # None /\ rkey.config_overrides[2][1][1] = LoadedKind
    THEN rkey.config_overrides[2][1][2]
    ELSE EmptyDict

\* the value of a table at a path of keys, Absent if the path does not lead to one
Absent == <<"absent">>

RECURSIVE At(_, _)
At(table, path) ==
    IF path[1] \notin DOMAIN table THEN Absent
    ELSE IF Len(path) = 1 THEN table[path[1]]
    ELSE IF IsMapping(table[path[1]]) THEN At(table[path[1]][2], Tail(path))
    ELSE Absent

\* merged is base with overlay merged onto it: the fields of overlay have
\* overlay's value, the fields of base that overlay does not have keep theirs,
\* and a field that is a mapping in both is merged in the same way
RECURSIVE MergedOnto(_, _, _)
MergedOnto(merged, base, overlay) ==
    /\ DOMAIN merged = DOMAIN base \cup DOMAIN overlay
    /\ \A key \in DOMAIN merged :
           IF key \notin DOMAIN overlay THEN merged[key] = base[key]
           ELSE IF /\ key \in DOMAIN base
                   /\ IsMapping(base[key]) /\ IsMapping(overlay[key])
           THEN /\ IsMapping(merged[key])
                /\ MergedOnto(merged[key][2], base[key][2], overlay[key][2])
           ELSE merged[key] = overlay[key]

\* C19 as stated: the table loaded with a config override is the table loaded
\* without it with the override deep-merged onto it: the override's fields have
\* the override's value, every other field of the same entry and every other
\* entry keep the value they had, nested mappings being merged key by key.
C19_OverrideAlwaysMerged == Loaded => MergedOnto(rres[2], rres[1], ConfigLayer)

\* C19, amended: that holds when the base file of the table exists; when it does
\* not, load_yaml returns the empty table and the override is not applied.
C19_OverrideDeepMerges ==
    (Loaded /\ Has(rkey.files, rkey.base_filename))
        => MergedOnto(rres[2], rres[1], ConfigLayer)

\* the override names outTemp's metadata.name only: the name is the override's,
\* device_class, source and the entry windDir are as they were loaded
C19_Witness ==
    /\ Loaded
    /\ rkey.base_filename = sensors_yaml
    /\ ConfigLayer = [k \in {"outTemp"} |->
                         Dict([e \in {"metadata"} |-> Dict([m \in {"name"} |-> Str("conf")])])]
    /\ At(rres[1], <<"outTemp", "metadata", "name">>) = Str("base")
    /\ At(rres[1], <<"outTemp", "metadata", "device_class">>) = Str("base")
    /\ At(rres[2], <<"outTemp", "metadata", "name">>) = Str("conf")
    /\ At(rres[2], <<"outTemp", "metadata", "device_class">>) = Str("base")
    /\ At(rres[2], <<"outTemp", "source">>) = Str("base")
    /\ At(rres[2], <<"windDir">>) = Str("base")

\* the paths of the tables of the model
Paths ==
    LET first == {<<a>> : a \in {"outTemp", "windDir"}}
        second == {p \o <<b>> : p \in first, b \in {"metadata", "source"}}
        third == {p \o <<c>> : p \in second, c \in {"name", "device_class"}}
    IN  first \cup second \cup third

\* a layer decides what is at a path if it has a value there, or a scalar on the
\* way to it
Touches(layer, path) ==
    \/ At(layer, path) # Absent
    \/ \E n \in 1..(Len(path) - 1) :
           /\ At(layer, SubSeq(path, 1, n)) # Absent
           /\ ~IsMapping(At(layer, SubSeq(path, 1, n)))

\* the highest of the three layers that decides what is at a path
Highest(path) ==
    IF Touches(ConfigLayer, path) THEN ConfigLayer
    ELSE IF Touches(LocaleLayer, path) THEN LocaleLayer
    ELSE BaseLayer

\* what the highest layer that decides a path has there is what the loaded table
\* has there: its scalar, a mapping if it has a mapping, nothing if it has nothing
HighestWins(path) ==
    LET top == At(Highest(path), path)
    IN  IF top = Absent THEN At(rres[2], path) = Absent
        ELSE IF IsMapping(top) THEN IsMapping(At(rres[2], path))
        ELSE At(rres[2], path) = top

\* C20 as stated: load_yaml layers base file < localized file < config override,
\* for sensors, units and enums alike: at every path the value of the highest
\* layer that defines it wins.
C20_HighestLayerAlwaysWins == Loaded => \A path \in Paths : HighestWins(path)

\* C20, amended: that holds when the base file exists; when it does not,
\* load_yaml returns the empty table whatever the higher layers define.
C20_HighestLayerWins ==
    (Loaded /\ Has(rkey.files, rkey.base_filename)) =>
        \A path \in Paths : HighestWins(path)

\* units.yaml loaded in Czech with an override: the name that all three layers
\* give is the override's, the device_class that the two files give is the
\* localized file's, the source that only the base file gives is the base's
C20_Witness ==
    /\ Loaded
    /\ rkey.base_filename = units_yaml
    /\ At(BaseLayer, <<"outTemp", "metadata", "name">>) = Str("base")
    /\ At(LocaleLayer, <<"outTemp", "metadata", "name">>) = Str("loc")
    /\ At(rres[2], <<"outTemp", "metadata", "name">>) = Str("conf")
    /\ At(BaseLayer, <<"outTemp", "metadata", "device_class">>) = Str("base")
    /\ At(rres[2], <<"outTemp", "metadata", "device_class">>) = Str("loc")
    /\ At(rres[2], <<"outTemp", "source">>) = Str("base")

\* the state call t is in its derived-sensor scan and the registry has grown
\* since the scan copied it
GrownDuringScan(t) ==
    t.kind = "state" /\ t.pc = "scan" /\ t.j < Len(seen_measurements)

\* C23: the derived-sensor scan tolerates a registry that grows while it runs:
\* the step that ends the scan of a state call does not fail, and it publishes
\* one message for each derived entry (source equal to the packet key, with a
\* convert_lambda) among the items the registry had when the scan copied it,
\* in their order, and none for an item inserted since.
C23_ScanOverSnapshot ==
    [][\A t \in running :
           (t.kind = "state" /\ t.pc = "scan" /\ t \notin running') =>
               \E u \in running' \ running :
                   LET copied == {n \in 1..t.j :
                                     /\ "source" \in DOMAIN seen_measurements[n][2]
                                     /\ seen_measurements[n][2]["source"] = t.packet[t.i][1]
                                     /\ "convert_lambda" \in DOMAIN seen_measurements[n][2]}
                       new == SubSeq(u.out, Len(t.out) + 1, Len(u.out))
                   IN  /\ u.worker = t.worker
                       /\ u.exc = ""
                       /\ Len(new) = Cardinality(copied)
                       /\ \A m \in DOMAIN new :
                              \E n \in copied :
                                  /\ new[m][1] = StateTopic(seen_measurements[n][1])
                                  /\ Cardinality({k \in copied : k <= n}) = m
      ]_vars

\* a scan is running on a copy that lacks a derived sensor of the packet key it
\* scans for: a registry-update task inserted the sensor after the copy
C23_Witness ==
    \E t \in running :
        /\ GrownDuringScan(t)
        /\ \E n \in (t.j + 1)..Len(seen_measurements) :
               /\ "source" \in DOMAIN seen_measurements[n][2]
               /\ seen_measurements[n][2]["source"] = t.packet[t.i][1]
               /\ "convert_lambda" \in DOMAIN seen_measurements[n][2]

\* C24: a publish_discovery call that has ended has not been aborted by a
\* registry-update task inserting keys meanwhile: it ended without an exception
\* and has published one document for every key the registry had when the call
\* began to iterate, in the registry's order.
C24_DiscoveryComplete ==
    \A t \in DiscoveryCalls :
        t.pc = "done" =>
            /\ t.exc = ""
            /\ Len(t.out) = t.tmp
            /\ \A n \in 1..t.tmp : t.out[n][1][4] = seen_measurements[n][1]

\* C25: process_packet publishes for a packet key only when it finds the key in
\* the registry at its lookup: the lookup of an unregistered key publishes
\* nothing and goes on to the next entry of the packet, the lookup of a
\* registered key publishes on the key's own topic only, and the derived-sensor
\* scan runs only for a key that was found.  So a call's messages on the topic of
\* a key it did not find are derived from another key of the packet, one it
\* did find.
C25_OnlyRegisteredPublished ==
    /\ [](\A t \in StateCalls :
              /\ t.pc \in {"derived", "scan"} =>
                     /\ t.packet[t.i][1] \in t.looked_up
                     /\ Has(seen_measurements, t.packet[t.i][1])
              /\ \A key \in t.missing : \A m \in Published(t) :
                     m[1] = StateTopic(key) =>
                         /\ Has(seen_measurements, key)
                         /\ "source" \in DOMAIN Get(seen_measurements, key)
                         /\ Get(seen_measurements, key)["source"] \in t.looked_up)
    /\ [][\A t \in running :
              (t.kind = "state" /\ t.pc = "lookup" /\ t \notin running') =>
                  \E u \in running' \ running :
                      /\ u.worker = t.worker
                      /\ IF Has(seen_measurements, t.packet[t.i][1])
                         THEN \/ u.exc # "" /\ u.out = t.out
                              \/ /\ Len(u.out) = Len(t.out) + 1
                                 /\ u.out[Len(u.out)][1] = StateTopic(t.packet[t.i][1])
                         ELSE /\ u.out = t.out
                              /\ u.pc \in {"lookup", "done"}
                              /\ u.i > t.i
      ]_vars

\* a call has returned that did not find windDir at its lookup and published
\* neither windDir nor windDirCardinal, though both are registered by now
C25_Witness ==
    \E t \in StateCalls :
        /\ Returned(t)
        /\ windDir \in t.missing
        /\ Get(t.packet, windDir) # None
        /\ Has(seen_measurements, windDir)
        /\ Has(seen_measurements, windDirCardinal)
        /\ t.out # <<>>
        /\ \A m \in Published(t) : m[1] \notin {StateTopic(windDir), StateTopic(windDirCardinal)}

Overlaid(metadata, unit, table) ==
    /\ DOMAIN metadata = DOMAIN unit \cup DOMAIN table
    /\ \A a \in DOMAIN table : metadata[a] = table[a]
    /\ \A a \in DOMAIN unit \ DOMAIN table : metadata[a] = unit[a]

\* C27: the metadata registered for a key discovered from a packet is the unit
\* metadata with the sensor table's metadata laid over it.  The step of
\* process_packet that stores the merged metadata leaves it so, and it stays so
\* for a key that only a packet can register, whenever no registry update is
\* between inserting that key and merging its metadata.
C27_UnitUnderKeyTable ==
    /\ [][\A t \in running :
              (t.kind = "config" /\ t.pc = "merge" /\ t \notin running') =>
                  Overlaid(Get(seen_measurements', t.packet[t.i][1])["metadata"],
                           get_unit_metadata(t.packet[t.i][1], unit_system),
                           get_key_config(t.packet[t.i][1])["metadata"])
      ]_vars
    /\ [](\A n \in DOMAIN seen_measurements :
              LET key == seen_measurements[n][1]
              IN  (/\ "source" \notin DOMAIN get_key_config(key)
                   /\ \A t \in ConfigCalls :
                          t.pc \in {"fill", "merge"} => t.packet[t.i][1] # key)
                  => /\ "metadata" \in DOMAIN seen_measurements[n][2]
                     /\ Overlaid(seen_measurements[n][2]["metadata"],
                                 get_unit_metadata(key, unit_system),
                                 get_key_config(key)["metadata"]))

\* extraTemp1 and ET are registered from packets and no registry update is
\* running: extraTemp1 has the table's null unit_of_measurement and the
\* value_template of the unit, ET the table's value_template and the unit's
\* unit_of_measurement
C27_Witness ==
    /\ ConfigCalls = {}
    /\ Has(seen_measurements, extraTemp \o <<"1">>)
    /\ Has(seen_measurements, ET)
    /\ get_unit_metadata(extraTemp \o <<"1">>, unit_system)["unit_of_measurement"] = Str("(deg)C")
    /\ Get(seen_measurements, extraTemp \o <<"1">>)["metadata"]["unit_of_measurement"] = None
    /\ Get(seen_measurements, extraTemp \o <<"1">>)["metadata"]["value_template"]
           = Str("{{ value | round(1) }}")
    /\ get_unit_metadata(ET, unit_system)["value_template"] = Str("{{ value | round(2) }}")
    /\ Get(seen_measurements, ET)["metadata"]["value_template"] = Str("{{ value | round(1) }}")
    /\ Get(seen_measurements, ET)["metadata"]["unit_of_measurement"] = Str("mm")

\* C28: the cascade registers a derived sensor once, with its static record: the
\* step that assigns the record assigns it to a key that is not in the registry,
\* and the record it leaves, once unit_of_measurement is defaulted, is the table's
\* with no unit metadata merged in - unit_of_measurement null unless the table
\* sets it.
C28_CascadeRegistersOnce ==
    [][\A t \in running :
           /\ (t.kind = "config" /\ t.pc = "cascade_assign" /\ t \notin running') =>
                  /\ ~Has(seen_measurements, KEY_CONFIG[t.j][1])
                  /\ Get(seen_measurements', KEY_CONFIG[t.j][1]) = KEY_CONFIG[t.j][2]
           /\ (t.kind = "config" /\ t.pc = "cascade_unit" /\ t \notin running') =>
                  LET static == (KEY_CONFIG_TABLE \o sensor_overlay)[t.j][2]
                      entry == Get(seen_measurements', KEY_CONFIG[t.j][1])
                  IN  /\ entry = [static EXCEPT !["metadata"] =
                                     Union([unit_of_measurement |-> None], @)]
      ]_vars

\* the three base fields of the discovery document of sensor_name
BaseFields(sensor_name) ==
    [availability_topic |-> Str(availability_topic),
     state_topic |-> <<"topic", StateTopic(sensor_name)>>,
     unique_id |-> <<"id", node_id, "_", sensor_name>>]

\* the attribute a of a document built from the layers base, metadata and device:
\* the value of the highest layer that sets it
Layered(a, base, metadata, device) ==
    IF a \in DOMAIN device THEN device[a]
    ELSE IF a \in DOMAIN metadata THEN metadata[a]
    ELSE base[a]

\* C29: the document publish_discovery publishes for a registry entry has, for
\* each attribute of the base fields, the entry's metadata and the device
\* description, the value of the highest of these layers that sets it (base
\* fields < metadata < device description), left out when that value is null,
\* and no other attribute; so no attribute of a published document is null.
C29_DocumentLayers ==
    /\ [][\A t \in running :
              (t.kind = "discovery" /\ t.pc = "next" /\ t \notin running') =>
                  \A u \in running' \ running :
                      Len(u.out) = Len(t.out) + 1 =>
                          LET sensor_name == seen_measurements[t.i][1]
                              base == BaseFields(sensor_name)
                              metadata == GetOr(seen_measurements[t.i][2], "metadata", EmptyDict)
                              attributes == DOMAIN base \cup DOMAIN metadata
                                                        \cup DOMAIN device_description
                              payload == u.out[Len(u.out)][2]
                          IN  /\ DOMAIN payload \subseteq attributes
                              /\ \A a \in attributes :
                                     LET value == Layered(a, base, metadata, device_description)
                                     IN  IF value = None THEN a \notin DOMAIN payload
                                         ELSE a \in DOMAIN payload /\ payload[a] = value
      ]_vars
    /\ [](\A t \in DiscoveryCalls : \A m \in Published(t) :
              \A a \in DOMAIN m[2] : m[2][a] # None)

\* a publish_discovery call has published the document of extraTemp1, whose
\* metadata sets a unique_id, a device and a null unit_of_measurement: the
\* document has the metadata's unique_id, the device description's device and no
\* unit_of_measurement
C29_Witness ==
    \E t \in DiscoveryCalls : \E m \in Published(t) :
        /\ m[1][4] = extraTemp \o <<"1">>
        /\ Get(seen_measurements, extraTemp \o <<"1">>)["metadata"]["unit_of_measurement"] = None
        /\ Get(seen_measurements, extraTemp \o <<"1">>)["metadata"]["device"] = Str("shed")
        /\ m[2]["unique_id"] = Str("frost")
        /\ m[2]["device"] = device_description["device"]
        /\ m[2]["state_topic"] = <<"topic", StateTopic(extraTemp \o <<"1">>)>>
        /\ "unit_of_measurement" \notin DOMAIN m[2]
        /\ "value_template" \in DOMAIN m[2]

\* the calls of publish_discovery in T have published one document for each
\* entry the registry had when they began to iterate, in the registry's order
OnePerEntry(T) ==
    \A t \in T :
        /\ Len(t.out) = t.tmp
        /\ \A n \in 1..t.tmp : t.out[n][1][4] = seen_measurements[n][1]

\* each document is published to <discovery-prefix>/<integration>/<node_id>/<key>/config,
\* integration being the entry's or "sensor", and distinct keys of the registry
\* have distinct topics and distinct unique_ids
TopicPerKey ==
    /\ [][\A t \in running :
              (t.kind = "discovery" /\ t.pc = "next" /\ t \notin running') =>
                  \A u \in running' \ running :
                      Len(u.out) = Len(t.out) + 1 =>
                          u.out[Len(u.out)][1] =
                              <<discovery_topic_prefix,
                                IF "integration" \in DOMAIN seen_measurements[t.i][2]
                                THEN seen_measurements[t.i][2]["integration"][2]
                                ELSE "sensor",
                                node_id, seen_measurements[t.i][1], "config">>
      ]_vars
    /\ [](\A m, n \in DOMAIN seen_measurements :
              m # n => /\ DiscoveryDocuments[m][1] # DiscoveryDocuments[n][1]
                       /\ DiscoveryDocuments[m][2]["unique_id"]
                              # DiscoveryDocuments[n][2]["unique_id"])

\* C30: a publish_discovery call that has ended has published exactly one
\* document per registry entry, in insertion order, each to the topic of its key
\* and integration, and distinct keys have distinct topics and unique_ids.
C30_OneDocumentPerEntry ==
    /\ [](OnePerEntry({t \in DiscoveryCalls : t.pc = "done"}))
    /\ TopicPerKey

\* the same of the publish_discovery calls that were not aborted
C30_UnlessAborted ==
    /\ [](OnePerEntry({t \in DiscoveryCalls : Returned(t)}))
    /\ TopicPerKey

\* C22: a state-publication and a registry-update task are submitted only by the
\* step in which a preprocess task that ended without an exception leaves the
\* pool, together and for its packet; a registry-update task that leaves the pool
\* is followed by a publish-all task if and only if it returned true; and no
\* publish-all task is submitted otherwise, but for Home Assistant's birth message.
C22_PipelineOrder ==
    [][LET Submitted == IF Len(queue') > Len(queue)
                        THEN SubSeq(queue', Len(queue) + 1, Len(queue'))
                        ELSE <<>>
           Finishing == {t \in running : t.pc = "done" /\ t \notin running'}
       IN  /\ (\E n \in DOMAIN Submitted : Submitted[n].kind \in {"state", "config"})
                  => \E t \in Finishing :
                         /\ t.kind = "preprocess" /\ t.exc = ""
                         /\ Submitted = <<Task("state", t.packet), Task("config", t.packet)>>
           /\ \A t \in Finishing :
                  t.kind = "config" =>
                      ((t.exc = "" /\ t.found) <=> Submitted = <<Task("discovery", <<>>)>>)
           /\ (\E n \in DOMAIN Submitted : Submitted[n].kind = "discovery")
                  => \/ env.births' = env.births + 1
                     \/ \E t \in Finishing : t.kind = "config" /\ t.found
      ]_vars

(***************************************************************************)
(* Properties of the resolver (checked under SpecResolve).                 *)
(***************************************************************************)
\* the resolvers have been called on rkey: rres[1] is what get_key_config returned,
\* rres[2] what get_unit_metadata returned for the unit system rres[4], and
\* rres[3] whether it logged its warning
Resolved == Len(rres) = 4

\* C16: for every key - in the table, with a numeric suffix, all digits, empty,
\* unknown - get_key_config returns a record with a metadata name and
\* get_unit_metadata returns a record with a unit; neither ends with an exception.
C16_ResolversTotal ==
    Resolved =>
        /\ ~IsFailed(rres[1])
        /\ "metadata" \in DOMAIN rres[1]
        /\ "name" \in DOMAIN rres[1]["metadata"]
        /\ "unit_of_measurement" \in DOMAIN rres[2]

\* a key of digits only has been resolved, to a name synthesized from it and to
\* no unit
C16_Witness ==
    /\ Resolved
    /\ rkey = <<"1", "3">>
    /\ rres[1] = [metadata |-> [name |-> Text(<<" ", "1", "3">>)]]
    /\ rres[2] = [unit_of_measurement |-> None]

\* the ways to read key as <base><digits>: the lengths of a non-empty run of
\* digits that ends it
DigitSplits(key) ==
    {n \in 1..Len(key) : \A i \in (Len(key) - n + 1)..Len(key) : IsDigit(key[i])}

\* the base entry's record with its name suffixed by a space and the digits
SuffixedEntry(base_key, digits) ==
    LET base == Get(KEY_CONFIG, base_key)
    IN  [base EXCEPT !["metadata"]["name"] = Text(@[2] \o <<" ">> \o digits)]

\* C7 as claimed: for every key of the form <base><digits> where <base> is a key
\* of the static sensor table, get_key_config returns the base entry's metadata
\* with its name suffixed by a space and the digits.
C7_AnyBaseWithDigits ==
    Resolved =>
        \A n \in DigitSplits(rkey) :
            LET base_key == SubSeq(rkey, 1, Len(rkey) - n)
                digits == SubSeq(rkey, Len(rkey) - n + 1, Len(rkey))
            IN  Has(KEY_CONFIG, base_key) => rres[1] = SuffixedEntry(base_key, digits)

\* C7 as amended: for every key of the form <base><digits> that is not itself a
\* key of the static sensor table, where <base> is a key of the table that does
\* not end in a digit, get_key_config returns the base entry's record with its
\* name suffixed by a space and the digits.
C7_SuffixedBase ==
    Resolved /\ ~Has(KEY_CONFIG, rkey) =>
        \A n \in DigitSplits(rkey) :
            LET base_key == SubSeq(rkey, 1, Len(rkey) - n)
                digits == SubSeq(rkey, Len(rkey) - n + 1, Len(rkey))
            IN  Has(KEY_CONFIG, base_key) /\ TrailingDigits(base_key) = 0
                    => rres[1] = SuffixedEntry(base_key, digits)

\* extraTemp3 has been resolved to "Extra Temperature 3"
C7_Witness ==
    /\ Resolved
    /\ rkey = extraTemp \o <<"3">>
    /\ rres[1]["metadata"]["name"] = Text(<<"E", "x", "t", "r", "a", " ", "T", "e", "m", "p", "e", "r", "a", "t", "u", "r", "e", " ", "3">>)
    /\ rres[1]["metadata"]["device_class"] = Str("temperature")

\* C8: for every key present in the static sensor table, get_key_config returns
\* exactly that table entry (the exact match wins over suffix stripping and
\* guessing).
C8_ExactMatchWins ==
    Resolved /\ Has(KEY_CONFIG, rkey) => rres[1] = Get(KEY_CONFIG, rkey)

\* windDir10, a table key that is also windDir with a numeric suffix, has been
\* resolved to its own entry
C8_Witness ==
    /\ Resolved
    /\ rkey = windDir10
    /\ Has(KEY_CONFIG, windDir)
    /\ rres[1]["metadata"]["name"] = Text(<<"1", "0", "-", "M", "i", "n", "u", "t", "e", " ", "W", "i", "n", "d", " ", "D", "i", "r", "e", "c", "t", "i", "o", "n">>)

\* the record get_unit_metadata returns for the unit symbol unit (null if none):
\* the unit table's entry, or the bare symbol when the table has none
UnitRecord(unit) ==
    IF unit # None /\ unit[2] \in DOMAIN UNIT_METADATA THEN UNIT_METADATA[unit[2]]
    ELSE [unit_of_measurement |-> unit]

\* C31: get_unit_metadata returns the record of the unit weewx gives for the
\* key; when weewx gives none, usUnits gets no unit and no warning, a key ending
\* in "ET" the unit of ET, sunrise, sunset and stormStart the unit of dateTime,
\* each without a warning, and any other key no unit and a warning.  The record
\* is the unit table's entry, or the bare symbol (null when none) when the table
\* has no entry.
C31_UnitGuessOrder ==
    Resolved =>
        LET us == rres[4]
            given == getStandardUnitType(us, rkey)
        IN  IF given # None
            THEN rres[2] = UnitRecord(given) /\ ~rres[3]
            ELSE IF rkey = usUnits
            THEN rres[2] = [unit_of_measurement |-> None] /\ ~rres[3]
            ELSE IF EndsWith(rkey, <<"E", "T">>)
            THEN rres[2] = UnitRecord(getStandardUnitType(us, ET)) /\ ~rres[3]
            ELSE IF rkey \in {sunrise, sunset, stormStart}
            THEN rres[2] = UnitRecord(getStandardUnitType(us, dateTime)) /\ ~rres[3]
            ELSE rres[2] = [unit_of_measurement |-> None] /\ rres[3]

\* dayET, of which weewx knows no unit, has got the unit-table entry of ET's
\* unit in the US system, with no warning
C31_Witness ==
    /\ Resolved
    /\ rkey = <<"d", "a", "y", "E", "T">>
    /\ rres[4] = "US"
    /\ getStandardUnitType("US", rkey) = None
    /\ rres[2] = UNIT_METADATA["inch"]
    /\ ~rres[3]

\* the substrings get_key_config looks for in the lower-cased name, each with
\* the key of the entry it takes as the template, in the order of the tests
GuessRules == <<
    << <<"a", "l", "a", "r", "m">>, extraAlarm >>,
    << <<"h", "u", "m", "i", "d", "i", "t", "y">>, outHumidity >>,
    << <<"p", "r", "e", "s", "s", "u", "r", "e">>, pressure >>,
    << <<"t", "e", "m", "p", "e", "r", "a", "t", "u", "r", "e">>, outTemp >>
    >>

\* rkey is neither a key of the table nor a key of the table followed by digits
Guessed ==
    /\ ~Truthy(rkey)
    /\ TrailingDigits(rkey) > 0
           => ~Truthy(SubSeq(rkey, 1, Len(rkey) - TrailingDigits(rkey)))

\* C32: for a key that is neither in the table nor a table key with a numeric
\* suffix, get_key_config returns the entry of the first rule, in the order
\* alarm, humidity, pressure, temperature, whose substring is in the lower-cased
\* synthesized name, or an empty template when there is none, with the
\* synthesized name as its name.
C32_FirstGuessWins ==
    (Resolved /\ Guessed) =>
        LET name == SynthesizedName(rkey)
            matching == {i \in DOMAIN GuessRules : Contains(Lowered(name), GuessRules[i][1])}
            first == CHOOSE i \in matching : \A k \in matching : i <= k
            template == IF matching = {} THEN [metadata |-> EmptyDict]
                        ELSE Get(KEY_CONFIG, GuessRules[first][2])
        IN  /\ ~IsFailed(rres[1])
            /\ rres[1]["metadata"]["name"] = Text(name)
            /\ DOMAIN rres[1] = DOMAIN template
            /\ \A f \in DOMAIN template \ {"metadata"} : rres[1][f] = template[f]
            /\ DOMAIN rres[1]["metadata"] = DOMAIN template["metadata"] \cup {"name"}
            /\ \A a \in DOMAIN template["metadata"] \ {"name"} :
                   rres[1]["metadata"][a] = template["metadata"][a]

\* temperatureAlarm, whose name has both "temperature" and "alarm", has got the
\* alarm template under the name "Temperature Alarm"
C32_Witness ==
    /\ Resolved /\ Guessed
    /\ rkey = <<"t", "e", "m", "p", "e", "r", "a", "t", "u", "r", "e", "A", "l", "a", "r", "m">>
    /\ rres[1]["integration"] = Str("binary_sensor")
    /\ rres[1]["metadata"]["payload_on"] = Num(1)
    /\ rres[1]["metadata"]["name"] =
           Text(<<"T", "e", "m", "p", "e", "r", "a", "t", "u", "r", "e", " ", "A", "l", "a", "r", "m">>)

\* the items among the first n of the registry that are derived from source_key
DerivedFrom(source_key, n) ==
    {m \in 1..n : /\ "source" \in DOMAIN seen_measurements[m][2]
                  /\ seen_measurements[m][2]["source"] = source_key}

\* C33: the derived-sensor scan of a source key publishes nothing on the topic
\* of a registered entry that has this source and no conversion, and logs a
\* warning for it; the message of the source key itself, published before the
\* scan, stands, and the other entries derived from the source get their
\* converted message.
C33_UnconvertedSkipped ==
    [][\A t \in running :
           (t.kind = "state" /\ t.pc = "scan" /\ t \notin running') =>
               \E u \in running' \ running :
                   LET source_key == t.packet[t.i][1]
                       new == SubSeq(u.out, Len(t.out) + 1, Len(u.out))
                   IN  /\ u.worker = t.worker
                       /\ SubSeq(u.out, 1, Len(t.out)) = t.out
                       /\ t.out[Len(t.out)][1] = StateTopic(source_key)
                       /\ \A m \in DerivedFrom(source_key, t.j) :
                              LET sensor_name == seen_measurements[m][1]
                                  sensor_config == seen_measurements[m][2]
                                  sent == {k \in DOMAIN new : new[k][1] = StateTopic(sensor_name)}
                              IN  IF "convert_lambda" \in DOMAIN sensor_config
                                  THEN /\ Cardinality(sent) = 1
                                       /\ \A k \in sent :
                                              new[k][2] = Convert(sensor_config["convert_lambda"],
                                                                  t.packet[t.i][2])
                                  ELSE /\ sent = {}
                                       /\ sensor_name \in u.unconverted
      ]_vars

\* a state publication of windDir has returned with compass, which has no
\* conversion, registered before its scan: it has published windDir and
\* windDirCardinal, nothing on the topic of compass, and has logged the warning
C33_Witness ==
    \E t \in StateCalls :
        /\ Returned(t)
        /\ compass \in t.unconverted
        /\ "convert_lambda" \notin DOMAIN Get(seen_measurements, compass)
        /\ Get(seen_measurements, compass)["source"] = windDir
        /\ \E m \in Published(t) : m[1] = StateTopic(windDir)
        /\ \E m \in Published(t) : m[1] = StateTopic(windDirCardinal) /\ m[2] = Str("NE")
        /\ \A m \in Published(t) : m[1] # StateTopic(compass)

\* the first packet's registry update has not ended, so no publish-all has been
\* submitted for a registry update: a publish-all that runs is the one submitted
\* for the birth message
OnlyBirthSubmitted ==
    /\ env.packets = 1
    /\ env.births = 1
    /\ \/ \E t \in running : t.kind \in {"preprocess", "config"}
       \/ \E n \in DOMAIN queue : queue[n].kind \in {"preprocess", "config"}

\* a step that counts a birth message submits one publish-all task, and a step
\* that counts any other message leaves the pool and the registry alone
SubmitsIffBirth ==
    /\ (env.births' = env.births + 1) =>
           (queue' = Submit(<<Task("discovery", <<>>)>>))
    /\ (env.ignored' = env.ignored + 1) =>
           UNCHANGED <<queue, running, seen_measurements, settled_countdown>>

\* C34: a message submits a publish-all task if and only if it is "online" on
\* <discovery-prefix>/status, any other message changes nothing; and the task
\* submitted for the birth message publishes the discovery document of every key
\* of the registry.
C34_BirthRepublishesAll ==
    /\ [][SubmitsIffBirth]_vars
    /\ [](OnlyBirthSubmitted =>
              \A t \in DiscoveryCalls :
                  (t.pc = "done") =>
                      /\ t.exc = ""
                      /\ Len(t.out) = t.tmp
                      /\ \A n \in 1..t.tmp : t.out[n][1][4] = seen_measurements[n][1])

\* the part of C34 that is about the handler alone
C34_OnlyBirthSubmits == [][SubmitsIffBirth]_vars

\* C35: no step of StatePublisher.process_packet adds, removes or changes a
\* registry entry; in particular the lookup of a key that is not registered
\* leaves the registry without that key.
C35_StateLeavesRegistry ==
    [][\A t \in running :
          (t.kind = "state" /\ t \notin running') =>
              /\ seen_measurements' = seen_measurements
              /\ (t.pc = "lookup" /\ ~Has(seen_measurements, t.packet[t.i][1])) =>
                     ~Has(seen_measurements', t.packet[t.i][1])
      ]_vars

\* a process_packet call has ended after looking up a key that was not
\* registered, and the registry is still without that key
C35_Witness ==
    \E t \in running :
        /\ t.kind = "state" /\ t.pc = "done" /\ t.exc = ""
        /\ \E key \in t.missing : ~Has(seen_measurements, key)

\* C36: a state message is published for a key only after a discovery document
\* has been published for that key: every message a state-publication call has
\* published is on the topic of a key whose document is already at the sink.
C36_DiscoveryBeforeState ==
    \A t \in StateCalls :
        \A n \in DOMAIN t.out :
            \E key \in ghost.documented : t.out[n][1] = StateTopic(key)

\* the keys the archive records can bring into the registry when no override is
\* configured: their own keys and the keys of the table derived from them
RegistryKeys ==
    LET packet_keys == UNION {{record[n][1] : n \in DOMAIN record} : record \in Records}
    IN  packet_keys \cup
        {KEY_CONFIG_TABLE[n][1] :
            n \in {m \in DOMAIN KEY_CONFIG_TABLE :
                      /\ "source" \in DOMAIN KEY_CONFIG_TABLE[m][2]
                      /\ KEY_CONFIG_TABLE[m][2]["source"] \in packet_keys}}

C38_OneMessagePerTopic ==
    \A t \in StateCalls :
        \A m, n \in DOMAIN t.out : m # n => t.out[m][1] # t.out[n][1]

\* the conversion of the packet entry the call t is about to look up raises
LookupRaises(t) ==
    LET key == t.packet[t.i][1]
    IN  /\ t.pc = "lookup"
        /\ Has(seen_measurements, key)
        /\ "convert_lambda" \in DOMAIN Get(seen_measurements, key)
        /\ IsRaised(Convert(Get(seen_measurements, key)["convert_lambda"], t.packet[t.i][2]))

PublishesToSink ==
    /\ env.connected
    /\ \E t \in running, u \in running' :
           /\ t.kind \in {"state", "discovery"}
           /\ u.kind = t.kind /\ u.worker = t.worker
           /\ Len(u.out) > Len(t.out)

\* C40: once shutDown has published "offline" on the availability topic (the
\* service is no longer "up"), no state message and no discovery document is
\* published: "offline" is the last message.
C40_OfflineIsLast == [][PublishesToSink => env.phase = "up"]_vars
====
